---- MODULE Spec2Model ----
(***************************************************************************)
(* Request dispatch pipeline of next-controllers (src/core/router.ts):     *)
(* route matching, auth resolution, controller and route guards, role      *)
(* authorization, the middleware chain, handler execution and the error    *)
(* resolution of createNextHandler/handleRequest; the decorators and the   *)
(* metadata registry; the controller loader with its specificity sort,     *)
(* the route matcher and normalizePath; the container; two dispatches in   *)
(* flight on one handler.                                                  *)
(*                                                                         *)
(* Collaborators (auth provider, guards, middleware, handler, onError,     *)
(* custom exception filter) are external code: every outcome their         *)
(* interface allows is drawn nondeterministically.                         *)
(***************************************************************************)
EXTENDS Integers, Sequences, FiniteSets, TLC

\* ---------------------------------------------------------------- bounds
\* guards on one route, controller-level and route-level together
MaxGuards == 2
\* length of one route's middleware chain
MaxMiddleware == 2
\* continue callbacks invoked within one dispatch
MaxNextCalls == 2
\* decorator applications on one class
MaxDecorators == 3
\* annotated methods declared on the loaded controller
MaxRoutes == 3
\* tokens in one argument of normalizePath
MaxPathLen == 3
\* calls made on one container
MaxContainerCalls == 4

VARIABLES
  registry,         \* MetadataRegistry: controller and route metadata per controller type
  container,        \* globalContainer: the instance and the factory stored per class
  config,           \* NextControllersConfig: which optional collaborators are configured
  compiledRoutes,   \* the list built once by createNextHandler
  request,          \* the request being dispatched
  pc,               \* position of handleRequest
  route,            \* index into compiledRoutes of the matched route, 0 when none
  context,          \* RequestContext {params, auth}
  guardIndex,       \* position of the running guard loop
  middlewareIndex,  \* the closure variable shared by every executeMiddleware call
  stack,            \* middleware run() activations, innermost last
  pending,          \* response or error travelling to the caller on top of the stack
  response,         \* the Response handleRequest resolved with
  args,             \* the argument list of the last handler invocation
  calls,            \* collaborator invocations of this dispatch, in order
  suspended         \* the locals of the other dispatch in flight, waiting at an await

vars == <<registry, container, config, compiledRoutes, request, pc, route, context, guardIndex,
          middlewareIndex, stack, pending, response, args, calls, suspended>>

\* ------------------------------------------------------------ value helpers
Range(s) == {s[i] : i \in 1..Len(s)}

\* Array.prototype.includes
Includes(list, x) == \E i \in 1..Len(list) : list[i] = x

NoAuth == [present |-> FALSE, userId |-> "", roles |-> <<>>]

NoResponse == [status |-> 0, body |-> [none |-> TRUE], headers |-> {}]

NoError == [class |-> "none", name |-> "", statusCode |-> 0, message |-> "",
            details |-> "undefined", issues |-> "absent"]

\* NextResponse.json(body, {status})
Json(body, status) == [status |-> status, body |-> body, headers |-> {}]

Event(op, level, idx, result) ==
  [op |-> op, level |-> level, idx |-> idx, result |-> result]

\* ------------------------------------------------------------ http-exception
HttpException(statusCode, message, details) ==
  [class |-> "HttpException", name |-> "HttpException", statusCode |-> statusCode,
   message |-> message, details |-> details, issues |-> "absent"]

ForbiddenException(message, details) ==
  [HttpException(403, message, details) EXCEPT !.name = "ForbiddenException"]

UnauthorizedException(message, details) ==
  [HttpException(401, message, details) EXCEPT !.name = "UnauthorizedException"]

PlainError(message) ==
  [class |-> "Error", name |-> "Error", statusCode |-> 0, message |-> message,
   details |-> "undefined", issues |-> "absent"]

\* an error shaped like a Zod validation failure
ZodError(issues) == [PlainError("Validation") EXCEPT !.name = "ZodError", !.issues = issues]

\* JSON.parse failure
SyntaxError == [PlainError("Unexpected token") EXCEPT !.name = "SyntaxError"]

\* what a collaborator may throw
ThrowableErrors ==
  { PlainError("boom"),
    ForbiddenException("Custom forbidden", "reason:test") }

\* ------------------------------------------------------------ route matching
\* A path text is a sequence of tokens: the slash, a run of static text, a
\* named parameter (":id") or an optional named parameter (":id?").
Static(name) == [dyn |-> FALSE, opt |-> FALSE, name |-> name]
Param(name) == [dyn |-> TRUE, opt |-> FALSE, name |-> name]
OptionalParam(name) == [dyn |-> TRUE, opt |-> TRUE, name |-> name]
Slash == Static("/")

IsSlash(t) == t = Slash

IsSegment(t) == t # Slash

\* paths.join('/')
RECURSIVE Join(_)
Join(paths) ==
  IF paths = <<>> THEN <<>>
  ELSE IF Len(paths) = 1 THEN paths[1]
  ELSE paths[1] \o <<Slash>> \o Join(Tail(paths))

\* replace(/\/+/g, '/'): a run of slashes becomes one slash
RECURSIVE CollapseSlashes(_)
CollapseSlashes(text) ==
  IF Len(text) <= 1 THEN text
  ELSE IF IsSlash(text[1]) /\ IsSlash(text[2]) THEN CollapseSlashes(Tail(text))
  ELSE <<text[1]>> \o CollapseSlashes(Tail(text))

\* a variant that leaves a trailing slash in place
normalizePathKeepsTrailing(paths) ==
  LET joined == CollapseSlashes(Join(paths))
  IN IF joined # <<>> /\ IsSlash(joined[1]) THEN joined ELSE <<Slash>> \o joined

\* normalizePath: join, collapse, drop one trailing slash, ensure the leading one
normalizePath(paths) ==
  LET joined == CollapseSlashes(Join(paths))
      normalized == IF Len(joined) > 1 /\ IsSlash(joined[Len(joined)])
                    THEN SubSeq(joined, 1, Len(joined) - 1) ELSE joined
  IN IF normalized # <<>> /\ IsSlash(normalized[1]) THEN normalized
     ELSE <<Slash>> \o normalized

\* split('/').filter(Boolean) of a text whose segments are single tokens
Split(text) == SelectSeq(text, IsSegment)

\* positions of the named segments of a template, left to right
RECURSIVE DynPositions(_, _)
DynPositions(template, i) ==
  IF i > Len(template) THEN <<>>
  ELSE IF template[i].dyn THEN <<i>> \o DynPositions(template, i + 1)
       ELSE DynPositions(template, i + 1)

\* compileRoute: the pattern of the path's segments and one key per named
\* segment, in order, with its position among the keys
compileRoute(path) ==
  LET template == Split(path)
  IN [pattern |-> template,
      keys |-> [k \in 1..Len(DynPositions(template, 1)) |->
                  [name |-> template[DynPositions(template, 1)[k]].name, index |-> k - 1]]]

NoExec == [ok |-> FALSE, groups |-> <<>>]

\* route.pattern.exec(pathname): whether it matches, and the captured groups,
\* "undefined" for the group of an optional segment that took nothing
RECURSIVE Exec(_, _)
Exec(pattern, pathname) ==
  IF pattern = <<>> THEN [ok |-> pathname = <<>>, groups |-> <<>>]
  ELSE LET seg == Head(pattern)
           taken ==
             IF pathname = <<>> THEN NoExec
             ELSE IF ~seg.dyn /\ seg.name # Head(pathname) THEN NoExec
             ELSE LET rest == Exec(Tail(pattern), Tail(pathname))
                  IN IF rest.ok
                     THEN [ok |-> TRUE,
                           groups |-> (IF seg.dyn THEN <<Head(pathname)>> ELSE <<>>)
                                        \o rest.groups]
                     ELSE NoExec
           skipped ==
             IF ~seg.opt THEN NoExec
             ELSE LET rest == Exec(Tail(pattern), pathname)
                  IN IF rest.ok
                     THEN [ok |-> TRUE, groups |-> <<"undefined">> \o rest.groups]
                     ELSE NoExec
       IN IF taken.ok THEN taken ELSE skipped

PatternMatches(pattern, pathname) == Exec(pattern, pathname).ok

PatternGroups(pattern, pathname) == Exec(pattern, pathname).groups

NoParams == [n \in {} |-> ""]

NoMatch == [route |-> 0, params |-> NoParams]

\* a fresh RequestContext
Context(params) == [params |-> params, auth |-> NoAuth, parsedBody |-> "undefined"]

\* the locals of one handleRequest invocation
View(req, at, r, ctx, gi, mi, st, pend, resp, a, log) ==
  [request |-> req, pc |-> at, route |-> r, context |-> ctx, guardIndex |-> gi,
   middlewareIndex |-> mi, stack |-> st, pending |-> pend, response |-> resp,
   args |-> a, calls |-> log]

\* a variant that stores the captured group as it is
ExtractParamsRaw(r, pathname) ==
  [n \in {r.keys[k].name : k \in 1..Len(r.keys)} |->
     LET k == CHOOSE j \in 1..Len(r.keys) :
                /\ r.keys[j].name = n
                /\ \A l \in 1..Len(r.keys) : r.keys[l].name = n => l <= j
     IN PatternGroups(r.pattern, pathname)[r.keys[k].index + 1]]

\* params[key.name] = match[key.index + 1] || '' for every key, in order
ExtractParams(r, pathname) ==
  [n \in {r.keys[k].name : k \in 1..Len(r.keys)} |->
     LET k == CHOOSE j \in 1..Len(r.keys) :
                /\ r.keys[j].name = n
                /\ \A l \in 1..Len(r.keys) : r.keys[l].name = n => l <= j
         group == PatternGroups(r.pattern, pathname)[r.keys[k].index + 1]
     IN IF group = "undefined" THEN "" ELSE group]

\* a variant that does not compare the verb
RECURSIVE matchRouteFromAnyVerb(_, _, _, _)
matchRouteFromAnyVerb(i, pathname, method, routes) ==
  IF i > Len(routes) THEN NoMatch
  ELSE IF ~PatternMatches(routes[i].pattern, pathname)
       THEN matchRouteFromAnyVerb(i + 1, pathname, method, routes)
  ELSE [route |-> i, params |-> ExtractParams(routes[i], pathname)]

RECURSIVE matchRouteFrom(_, _, _, _)
matchRouteFrom(i, pathname, method, routes) ==
  IF i > Len(routes) THEN NoMatch
  ELSE IF routes[i].method # method THEN matchRouteFrom(i + 1, pathname, method, routes)
  ELSE IF ~PatternMatches(routes[i].pattern, pathname)
       THEN matchRouteFrom(i + 1, pathname, method, routes)
  ELSE [route |-> i, params |-> ExtractParams(routes[i], pathname)]

matchRoute(pathname, method, routes) == matchRouteFrom(1, pathname, method, routes)

\* ------------------------------------------------------------ configuration
Guards(level, n) == [i \in 1..n |-> [level |-> level, idx |-> i]]
Middlewares(level, n) == [i \in 1..n |-> [level |-> level, idx |-> i]]

RolesChoices ==
  { [defined |-> FALSE, list |-> <<>>],
    [defined |-> TRUE, list |-> <<>>],
    [defined |-> TRUE, list |-> <<"editor", "admin">>] }

AuthContexts ==
  { [present |-> TRUE, userId |-> "user-1", roles |-> <<"user">>],
    [present |-> TRUE, userId |-> "admin-1", roles |-> <<"admin">>] }

\* normalizePath(prefix, basePath, path) of the item route
ItemTemplate == normalizePath(<< <<>>, <<Static("items")>>, <<Param("id")>> >>)

CompiledRoute(fullPath, method, handler, metadata, controllerMetadata) ==
  [pattern |-> compileRoute(fullPath).pattern,
   keys |-> compileRoute(fullPath).keys,
   method |-> method,
   handler |-> handler,
   metadata |-> metadata,
   controllerMetadata |-> controllerMetadata]

BodyTexts == {"{\"name\":\"Bob\"}", "{\"name\":\"Bob\",\"extra\":1}", "{}", "{bad", ""}

Requests ==
  { [path |-> <<"items", "42">>, method |-> "GET", body |-> ""],
    [path |-> <<"items", "42">>, method |-> "DELETE", body |-> ""],
    [path |-> <<"nonexistent">>, method |-> "GET", body |-> ""] }
  \cup { [path |-> <<"uploads">>, method |-> m, body |-> b] :
           m \in {"POST", "PUT"}, b \in BodyTexts }

NoRequest == [path |-> <<>>, method |-> "", body |-> ""]

\* no handleRequest invocation is waiting
IdleView ==
  View(NoRequest, "idle", 0, Context(NoParams), 0, 0, <<>>,
       [value |-> NoResponse, error |-> NoError], NoResponse, <<>>, <<>>)

ParamDecorator(type, key, index, validator) ==
  [type |-> type, key |-> key, index |-> index, validator |-> validator]

NoRoles == [defined |-> FALSE, list |-> <<>>]

\* the routes of a second controller, without guards: their parameter
\* decorators are recorded last parameter first, and PUT has one middleware
UploadController == [basePath |-> <<Static("uploads")>>, guards |-> <<>>, middleware |-> <<>>]

UploadRoutes ==
  << CompiledRoute(normalizePath(<< <<>>, <<Static("uploads")>>, <<>> >>), "POST", "create",
       [path |-> <<>>, method |-> "POST", handler |-> "create", roles |-> NoRoles,
        guards |-> <<>>, middleware |-> <<>>,
        paramDecorators |-> <<ParamDecorator("context", "", 1, FALSE),
                              ParamDecorator("body", "", 0, TRUE)>>],
       UploadController),
     CompiledRoute(normalizePath(<< <<>>, <<Static("uploads")>>, <<>> >>), "PUT", "replace",
       [path |-> <<>>, method |-> "PUT", handler |-> "replace", roles |-> NoRoles,
        guards |-> <<>>, middleware |-> Middlewares("route", 1),
        paramDecorators |-> <<ParamDecorator("body", "", 2, FALSE),
                              ParamDecorator("body", "", 0, FALSE)>>],
       UploadController) >>

\* ------------------------------------------------------------ registry
\* new Map(): no controller type has route metadata
EmptyRegistry ==
  [controllerMetadata |-> << >>, routeMetadata |-> << >>, routeOrder |-> << >>]

\* new Map() twice: no class has an instance, none has a factory
EmptyContainer == [instances |-> << >>, factories |-> << >>]

\* an object is known by its class and by the construction that made it
Instance(token, serial) == [class |-> token, serial |-> serial]

NoInstance == Instance("-", 0)

\* the container with one instance for each class, each constructed once
ContainerWith(classes) ==
  [instances |-> [t \in classes |-> Instance(t, 1)], factories |-> << >>]

\* registry.ts 45-50: the record, or undefined
HasRouteMetadata(reg, target, methodName) ==
  /\ target \in DOMAIN reg.routeMetadata
  /\ methodName \in DOMAIN reg.routeMetadata[target]

getRouteMetadata(reg, target, methodName) == reg.routeMetadata[target][methodName]

\* the inner map is created on first use, the record replaced, the key keeps
\* the place of its first insertion
setRouteMetadata(reg, target, methodName, metadata) ==
  LET inner == IF target \in DOMAIN reg.routeMetadata
               THEN reg.routeMetadata[target] ELSE << >>
      stored == [m \in DOMAIN inner \cup {methodName} |->
                   IF m = methodName THEN metadata ELSE inner[m]]
      order == IF target \in DOMAIN reg.routeOrder THEN reg.routeOrder[target] ELSE <<>>
  IN [reg EXCEPT !.routeMetadata =
        [t \in DOMAIN reg.routeMetadata \cup {target} |->
           IF t = target THEN stored ELSE reg.routeMetadata[t]],
                 !.routeOrder =
        [t \in DOMAIN reg.routeOrder \cup {target} |->
           IF t # target THEN reg.routeOrder[t]
           ELSE IF methodName \in DOMAIN inner THEN order
           ELSE Append(order, methodName)]]

\* Array.from(routes.values()): the records in the order their keys were first set
getAllRouteMetadata(reg, target) ==
  IF target \notin DOMAIN reg.routeOrder THEN <<>>
  ELSE [i \in 1..Len(reg.routeOrder[target]) |->
          reg.routeMetadata[target][reg.routeOrder[target][i]]]

\* {path, method, handler}: the optional fields are left undefined
RouteMetadata(path, method, handler) ==
  [path |-> path, method |-> method, handler |-> handler, roles |-> NoRoles,
   guards |-> <<>>, middleware |-> <<>>, paramDecorators |-> <<>>]

\* a variant that stores the placeholder whether or not a record exists
ensureRouteMetadataFresh(reg, target, methodName) ==
  setRouteMetadata(reg, target, methodName, RouteMetadata(<<>>, "GET", methodName))

\* get-or-create of a placeholder with empty path, GET and the method's name
ensureRouteMetadata(reg, target, methodName) ==
  IF HasRouteMetadata(reg, target, methodName) THEN reg
  ELSE setRouteMetadata(reg, target, methodName, RouteMetadata(<<>>, "GET", methodName))

HasControllerMetadata(reg, target) == target \in DOMAIN reg.controllerMetadata

getControllerMetadata(reg, target) == reg.controllerMetadata[target]

\* the stored record of the class is replaced
setControllerMetadata(reg, target, metadata) ==
  [reg EXCEPT !.controllerMetadata =
     [t \in DOMAIN reg.controllerMetadata \cup {target} |->
        IF t = target THEN metadata ELSE reg.controllerMetadata[t]]]

\* {basePath}: guards and middleware are left undefined, read as empty lists
ControllerMetadata(basePath) ==
  [basePath |-> basePath, guards |-> <<>>, middleware |-> <<>>]

\* get-or-create of a placeholder with the empty base path
ensureControllerMetadata(reg, target) ==
  IF HasControllerMetadata(reg, target) THEN reg
  ELSE setControllerMetadata(reg, target, ControllerMetadata(<<>>))

\* the class whose instance a compiled route is bound to
ControllerOf(r) ==
  IF r.controllerMetadata.basePath = <<Static("items")>>
  THEN "ItemController" ELSE "UploadController"

\* the registry as the decorated controller classes of the handler left it
RECURSIVE RegistryOf(_)
RegistryOf(routes) ==
  IF routes = <<>> THEN EmptyRegistry
  ELSE LET r == routes[Len(routes)]
       IN setRouteMetadata(
            setControllerMetadata(RegistryOf(SubSeq(routes, 1, Len(routes) - 1)),
                                  ControllerOf(r), r.controllerMetadata),
            ControllerOf(r), r.handler, r.metadata)

\* createNextHandler: the configuration is fixed and the routes are compiled
\* once, from the first controller alone, or from both with the first one plain
Init ==
  /\ config \in [authProvider : BOOLEAN, onError : BOOLEAN, exceptionFilter : BOOLEAN]
  /\ \E cg \in 0..MaxGuards, cm \in 0..MaxMiddleware :
     \E rg \in 0..(MaxGuards - cg), rm \in 0..(MaxMiddleware - cm), roles \in RolesChoices,
        both \in BOOLEAN :
       /\ both => (cg = 0 /\ cm = 0 /\ rg = 0 /\ rm = 0 /\ roles = NoRoles)
       /\ compiledRoutes =
         << CompiledRoute(ItemTemplate, "GET", "getById",
              [path |-> <<Param("id")>>, method |-> "GET", handler |-> "getById",
               roles |-> roles,
               guards |-> Guards("route", rg),
               middleware |-> Middlewares("route", rm),
               paramDecorators |-> <<ParamDecorator("route", "id", 0, FALSE)>>],
              [basePath |-> <<Static("items")>>,
               guards |-> Guards("controller", cg),
               middleware |-> Middlewares("controller", cm)]) >>
         \o (IF both THEN UploadRoutes ELSE <<>>)
  /\ registry = RegistryOf(compiledRoutes)
  /\ container = ContainerWith({ControllerOf(compiledRoutes[i]) : i \in 1..Len(compiledRoutes)})
  /\ request = NoRequest
  /\ pc = "idle"
  /\ suspended = IdleView
  /\ route = 0
  /\ context = Context(NoParams)
  /\ guardIndex = 0
  /\ middlewareIndex = 0
  /\ stack = <<>>
  /\ pending = [value |-> NoResponse, error |-> NoError]
  /\ response = NoResponse
  /\ args = <<>>
  /\ calls = <<>>

\* ------------------------------------------------------------ handleRequest
Route == compiledRoutes[route]

\* handleRequest with the no-match outcome thrown into the catch block instead
\* of returned
handleRequestNoMatchThrows(req) ==
  /\ pc = "idle"
  /\ request' = req
  /\ guardIndex' = 0
  /\ middlewareIndex' = 0
  /\ stack' = <<>>
  /\ args' = <<>>
  /\ calls' = <<>>
  /\ response' = NoResponse
  /\ LET match == matchRoute(req.path, req.method, compiledRoutes) IN
       IF match.route = 0
       THEN /\ pending' = [value |-> NoResponse,
                           error |-> HttpException(404, "Route not found", "undefined")]
            /\ pc' = "raise"
            /\ route' = 0
            /\ context' = Context(NoParams)
       ELSE /\ pending' = [value |-> NoResponse, error |-> NoError]
            /\ route' = match.route
            /\ context' = Context(match.params)
            /\ pc' = IF config.authProvider THEN "auth" ELSE "controllerGuards"
  /\ UNCHANGED <<suspended, registry, container, config, compiledRoutes>>

\* handleRequest with the role step ahead of the guards: without a provider
\* no AuthContext can be attached, so a route with roles fails at once
handleRequestRolesFirst(req) ==
  /\ pc = "idle"
  /\ request' = req
  /\ guardIndex' = 0
  /\ middlewareIndex' = 0
  /\ stack' = <<>>
  /\ args' = <<>>
  /\ calls' = <<>>
  /\ LET match == matchRoute(req.path, req.method, compiledRoutes) IN
       IF match.route = 0
       THEN /\ response' = Json([error |-> "Route not found", path |-> req.path,
                                 method |-> req.method], 404)
            /\ pending' = [value |-> NoResponse, error |-> NoError]
            /\ pc' = "done"
            /\ route' = 0
            /\ context' = Context(NoParams)
       ELSE /\ response' = NoResponse
            /\ route' = match.route
            /\ context' = Context(match.params)
            /\ IF ~config.authProvider /\ compiledRoutes[match.route].metadata.roles.defined
               THEN /\ pending' = [value |-> NoResponse,
                                   error |-> UnauthorizedException("Authentication required",
                                                                   "undefined")]
                    /\ pc' = "raise"
               ELSE /\ pending' = [value |-> NoResponse, error |-> NoError]
                    /\ pc' = IF config.authProvider THEN "auth" ELSE "controllerGuards"
  /\ UNCHANGED <<suspended, registry, container, config, compiledRoutes>>

\* lines 20-47: match the route, answer 404 or build the request context
handleRequest(req) ==
  /\ pc = "idle"
  /\ request' = req
  /\ guardIndex' = 0
  /\ middlewareIndex' = 0
  /\ stack' = <<>>
  /\ pending' = [value |-> NoResponse, error |-> NoError]
  /\ args' = <<>>
  /\ calls' = <<>>
  /\ LET match == matchRoute(req.path, req.method, compiledRoutes) IN
       IF match.route = 0
       THEN /\ response' = Json([error |-> "Route not found", path |-> req.path,
                                 method |-> req.method], 404)
            /\ pc' = "done"
            /\ route' = 0
            /\ context' = Context(NoParams)
       ELSE /\ response' = NoResponse
            /\ route' = match.route
            /\ context' = Context(match.params)
            /\ pc' = IF config.authProvider THEN "auth" ELSE "controllerGuards"
  /\ UNCHANGED <<suspended, registry, container, config, compiledRoutes>>

\* ResolveAuth without the try/catch around the provider call
ResolveAuthFatal ==
  /\ pc = "auth"
  /\ \E outcome \in {"context", "null", "throw"} :
       /\ calls' = Append(calls, Event("authProvider", "-", 0, outcome))
       /\ IF outcome = "context"
          THEN \E authContext \in AuthContexts :
                 context' = [context EXCEPT !.auth = authContext]
          ELSE context' = context
       /\ IF outcome = "throw"
          THEN /\ pending' = [value |-> NoResponse, error |-> PlainError("provider failed")]
               /\ pc' = "raise"
          ELSE /\ pc' = "controllerGuards"
               /\ UNCHANGED pending
  /\ UNCHANGED <<suspended, registry, container, config, compiledRoutes, request, route, guardIndex,
                 middlewareIndex, stack, response, args>>

\* lines 49-59: the auth provider returns a context, returns null or throws
ResolveAuth ==
  /\ pc = "auth"
  /\ \E outcome \in {"context", "null", "throw"} :
       /\ calls' = Append(calls, Event("authProvider", "-", 0, outcome))
       /\ IF outcome = "context"
          THEN \E authContext \in AuthContexts :
                 context' = [context EXCEPT !.auth = authContext]
          ELSE context' = context
  /\ pc' = "controllerGuards"
  /\ UNCHANGED <<suspended, registry, container, config, compiledRoutes, request, route, guardIndex,
                 middlewareIndex, stack, pending, response, args>>

\* GuardLoop that drops the result of canActivate
GuardLoopIgnoresFalse(level, guards, after) ==
  /\ pc = level
  /\ IF guardIndex < Len(guards)
     THEN \E outcome \in {"true", "false", "throw"} :
            /\ calls' = Append(calls, Event("guard", guards[guardIndex + 1].level,
                                             guards[guardIndex + 1].idx, outcome))
            /\ IF outcome \in {"true", "false"}
               THEN /\ guardIndex' = guardIndex + 1
                    /\ UNCHANGED <<pc, pending>>
               ELSE /\ \E e \in ThrowableErrors :
                         pending' = [value |-> NoResponse, error |-> e]
                    /\ pc' = "raise"
                    /\ UNCHANGED guardIndex
     ELSE /\ pc' = after
          /\ guardIndex' = 0
          /\ UNCHANGED <<calls, pending>>
  /\ UNCHANGED <<suspended, registry, container, config, compiledRoutes, request, route, context,
                 middlewareIndex, stack, response, args>>

\* one iteration of a guard loop: canActivate returns true, returns false or throws
GuardLoop(level, guards, after) ==
  /\ pc = level
  /\ IF guardIndex < Len(guards)
     THEN \E outcome \in {"true", "false", "throw"} :
            /\ calls' = Append(calls, Event("guard", guards[guardIndex + 1].level,
                                             guards[guardIndex + 1].idx, outcome))
            /\ CASE outcome = "true" ->
                      /\ guardIndex' = guardIndex + 1
                      /\ UNCHANGED <<pc, pending>>
                 [] outcome = "false" ->
                      /\ pending' = [value |-> NoResponse,
                                     error |-> ForbiddenException("Access denied by guard",
                                                                  "undefined")]
                      /\ pc' = "raise"
                      /\ UNCHANGED guardIndex
                 [] outcome = "throw" ->
                      /\ \E e \in ThrowableErrors :
                           pending' = [value |-> NoResponse, error |-> e]
                      /\ pc' = "raise"
                      /\ UNCHANGED guardIndex
     ELSE /\ pc' = after
          /\ guardIndex' = 0
          /\ UNCHANGED <<calls, pending>>
  /\ UNCHANGED <<suspended, registry, container, config, compiledRoutes, request, route, context,
                 middlewareIndex, stack, response, args>>

\* lines 61-69
ControllerGuards ==
  pc = "controllerGuards" /\ GuardLoop("controllerGuards", Route.controllerMetadata.guards, "routeGuards")

\* lines 71-79
RouteGuards ==
  pc = "routeGuards" /\ GuardLoop("routeGuards", Route.metadata.guards, "roles")

\* hasRole with every() in place of some()
hasEveryRole(roles, auth) == \A i \in 1..Len(roles) : Includes(auth.roles, roles[i])

\* lines 89-92: roles.some(role => auth.roles.includes(role))
hasRole(roles, auth) == \E i \in 1..Len(roles) : Includes(auth.roles, roles[i])

\* RoleFailure without the membership test
RoleFailureSkipsMembership(roles, auth) ==
  IF roles.defined /\ ~auth.present
  THEN UnauthorizedException("Authentication required", "undefined")
  ELSE NoError

\* RoleFailure that asks for authentication only when the list is non-empty
RoleFailureEmptyListOpen(roles, auth) ==
  IF roles.defined /\ Len(roles.list) > 0
  THEN IF ~auth.present
       THEN UnauthorizedException("Authentication required", "undefined")
       ELSE IF ~hasRole(roles.list, auth)
            THEN ForbiddenException("Insufficient permissions", "undefined")
            ELSE NoError
  ELSE NoError

\* RoleFailure that asks for authentication on every route
RoleFailureAlwaysAuth(roles, auth) ==
  IF ~auth.present
  THEN UnauthorizedException("Authentication required", "undefined")
  ELSE IF Len(roles.list) > 0 /\ ~hasRole(roles.list, auth)
       THEN ForbiddenException("Insufficient permissions", "undefined")
       ELSE NoError

\* lines 81-98: the failure the role step throws, NoError when it passes
RoleFailure(roles, auth) ==
  IF roles.defined
  THEN IF ~auth.present
       THEN UnauthorizedException("Authentication required", "undefined")
       ELSE IF Len(roles.list) > 0 /\ ~hasRole(roles.list, auth)
            THEN ForbiddenException("Insufficient permissions", "undefined")
            ELSE NoError
  ELSE NoError

\* lines 100-104
MiddlewareChain(r) == r.controllerMetadata.middleware \o r.metadata.middleware

\* lines 81-107: role authorization, then the chain is built and started
CheckRoles ==
  /\ pc = "roles"
  /\ LET failure == RoleFailure(Route.metadata.roles, context.auth) IN
       IF failure # NoError
       THEN /\ pending' = [value |-> NoResponse, error |-> failure]
            /\ pc' = "raise"
       ELSE /\ pc' = "executeMiddleware"
            /\ UNCHANGED pending
  /\ middlewareIndex' = 0
  /\ UNCHANGED <<suspended, registry, container, config, compiledRoutes, request, route, context, guardIndex,
                 stack, response, args, calls>>

\* ------------------------------------------------------------ middleware chain
Top == stack[Len(stack)]

Frame(mw) == [level |-> mw.level, idx |-> mw.idx, calls |-> 0, got |-> NoResponse]

\* lines 108-116: run the middleware at the shared index, or the handler
executeMiddleware ==
  /\ pc = "executeMiddleware"
  /\ LET middleware == MiddlewareChain(Route) IN
       IF middlewareIndex < Len(middleware)
       THEN LET mw == middleware[middlewareIndex + 1] IN
              /\ middlewareIndex' = middlewareIndex + 1
              /\ stack' = Append(stack, Frame(mw))
              /\ calls' = Append(calls, Event("middleware", mw.level, mw.idx, "run"))
              /\ pc' = "mwRun"
       ELSE /\ pc' = "executeHandler"
            /\ UNCHANGED <<middlewareIndex, stack, calls>>
  /\ UNCHANGED <<suspended, registry, container, config, compiledRoutes, request, route, context, guardIndex,
                 pending, response, args>>

\* continue callbacks invoked so far in this dispatch
NextCalls == Cardinality({i \in 1..Len(calls) : calls[i].op = "next"})

\* Middleware.run: the running middleware calls its continue callback
MiddlewareCallsNext ==
  /\ pc = "mwRun"
  /\ NextCalls < MaxNextCalls
  /\ stack' = [stack EXCEPT ![Len(stack)].calls = @ + 1]
  /\ calls' = Append(calls, Event("next", Top.level, Top.idx, "call"))
  /\ pc' = "executeMiddleware"
  /\ UNCHANGED <<suspended, registry, container, config, compiledRoutes, request, route, context, guardIndex,
                 middlewareIndex, pending, response, args>>

\* the responses a middleware may return: its own, or what continue gave it,
\* untouched or with a header added
OwnResponse(f) == Json([from |-> "middleware", level |-> f.level, idx |-> f.idx], 200)

Transformed(f, r) == [r EXCEPT !.headers = @ \cup {<<f.level, f.idx>>}]

MiddlewareResponses(f) ==
  {OwnResponse(f)} \cup
  (IF f.got = NoResponse THEN {} ELSE {f.got, Transformed(f, f.got)})

\* Middleware.run returns
MiddlewareReturns ==
  /\ pc = "mwRun"
  /\ \E r \in MiddlewareResponses(Top) :
       pending' = [value |-> r, error |-> NoError]
  /\ stack' = SubSeq(stack, 1, Len(stack) - 1)
  /\ calls' = Append(calls, Event("middleware", Top.level, Top.idx, "return"))
  /\ pc' = "return"
  /\ UNCHANGED <<suspended, registry, container, config, compiledRoutes, request, route, context, guardIndex,
                 middlewareIndex, response, args>>

\* Middleware.run throws
MiddlewareThrows ==
  /\ pc = "mwRun"
  /\ pending' = [value |-> NoResponse, error |-> PlainError("middleware failed")]
  /\ stack' = SubSeq(stack, 1, Len(stack) - 1)
  /\ calls' = Append(calls, Event("middleware", Top.level, Top.idx, "throw"))
  /\ pc' = "raise"
  /\ UNCHANGED <<suspended, registry, container, config, compiledRoutes, request, route, context, guardIndex,
                 middlewareIndex, response, args>>

\* lines 111, 115, 118: a response reaches the awaiting caller
Return ==
  /\ pc = "return"
  /\ IF stack = <<>>
     THEN /\ response' = pending.value
          /\ pc' = "done"
          /\ UNCHANGED stack
     ELSE /\ stack' = [stack EXCEPT ![Len(stack)].got = pending.value]
          /\ pc' = "mwRun"
          /\ UNCHANGED response
  /\ UNCHANGED <<suspended, registry, container, config, compiledRoutes, request, route, context, guardIndex,
                 middlewareIndex, pending, args, calls>>

\* an error thrown below a middleware: it lets the error through, or catches it
\* and answers with a response of its own
Propagate ==
  /\ pc = "raise"
  /\ stack # <<>>
  /\ stack' = SubSeq(stack, 1, Len(stack) - 1)
  /\ \/ /\ calls' = Append(calls, Event("middleware", Top.level, Top.idx, "throw"))
        /\ UNCHANGED <<pc, pending>>
     \/ /\ calls' = Append(calls, Event("middleware", Top.level, Top.idx, "return"))
        /\ pending' = [value |-> OwnResponse(Top), error |-> NoError]
        /\ pc' = "return"
  /\ UNCHANGED <<suspended, registry, container, config, compiledRoutes, request, route, context, guardIndex,
                 middlewareIndex, response, args>>

\* ------------------------------------------------------------ executeHandler
\* [...paramDecorators].sort((a, b) => a.index - b.index), a stable sort
RECURSIVE InsertByIndex(_, _)
InsertByIndex(sorted, d) ==
  IF sorted = <<>> THEN <<d>>
  ELSE IF sorted[Len(sorted)].index <= d.index THEN Append(sorted, d)
       ELSE Append(InsertByIndex(SubSeq(sorted, 1, Len(sorted) - 1), d), sorted[Len(sorted)])

RECURSIVE SortByIndex(_)
SortByIndex(decorators) ==
  IF decorators = <<>> THEN <<>>
  ELSE InsertByIndex(SortByIndex(SubSeq(decorators, 1, Len(decorators) - 1)),
                     decorators[Len(decorators)])

\* text ? JSON.parse(text) : {}   (a parsed value is written as its JSON text)
ParseBody(text) ==
  IF text = "" THEN [ok |-> TRUE, value |-> "{}"]
  ELSE IF text = "{bad" THEN [ok |-> FALSE, value |-> "undefined"]
       ELSE [ok |-> TRUE, value |-> text]

\* validator.parse(value): an object schema requiring a name; it throws on a
\* value without one and returns the value stripped of its unknown keys
ValidatorAccepts(value) ==
  value \in {"{\"name\":\"Bob\"}", "{\"name\":\"Bob\",\"extra\":1}"}

ValidatorReturn(value) == "{\"name\":\"Bob\"}"

\* the value of a body binding is the cached body as it is
ValidatedKeepsRaw(d, cached) == cached

\* lines 173-177: the value of a body binding with a validator is what parse returns
Validated(d, cached) == IF d.validator THEN ValidatorReturn(cached) ELSE cached

\* the argument is appended to the list, whatever its parameter index
SetArgPush(a, index, value) == Append(a, value)

\* args[index] = value on a JavaScript array: holes read as undefined
SetArg(a, index, value) ==
  [i \in 1..(IF index + 1 > Len(a) THEN index + 1 ELSE Len(a)) |->
     IF i = index + 1 THEN value
     ELSE IF i <= Len(a) THEN a[i] ELSE "undefined"]

\* lines 161-213: one pass over the sorted decorators; b is the binding state
RECURSIVE BindFrom(_, _, _, _)
BindFrom(i, sorted, req, b) ==
  IF i > Len(sorted) \/ b.error # NoError THEN b
  ELSE LET d == sorted[i] IN
    CASE d.type = "body" ->
           LET mustRead == b.parsedBody = "undefined"
               parsed == ParseBody(req.body)
               cached == IF mustRead THEN parsed.value ELSE b.parsedBody
               reads == IF mustRead THEN b.reads + 1 ELSE b.reads
           IN IF mustRead /\ ~parsed.ok
              THEN [b EXCEPT !.reads = reads, !.error = SyntaxError]
              ELSE IF d.validator /\ ~ValidatorAccepts(cached)
                   THEN [b EXCEPT !.reads = reads, !.parsedBody = cached,
                                  !.error = ZodError("name: Required")]
                   ELSE BindFrom(i + 1, sorted, req,
                          [b EXCEPT !.reads = reads, !.parsedBody = cached,
                                    !.args = SetArg(@, d.index, Validated(d, cached))])
      [] d.type = "route" ->
           BindFrom(i + 1, sorted, req,
             [b EXCEPT !.args = SetArg(@, d.index,
                IF d.key # ""
                THEN (IF d.key \in DOMAIN b.params THEN b.params[d.key] ELSE "undefined")
                ELSE "params")])
      [] d.type = "query" ->
           BindFrom(i + 1, sorted, req,
             [b EXCEPT !.args = SetArg(@, d.index, IF d.key # "" THEN "null" ELSE "query")])
      [] d.type = "headers" ->
           BindFrom(i + 1, sorted, req,
             [b EXCEPT !.args = SetArg(@, d.index, IF d.key # "" THEN "null" ELSE "headers")])
      [] d.type = "request" ->
           BindFrom(i + 1, sorted, req, [b EXCEPT !.args = SetArg(@, d.index, "request")])
      [] d.type = "context" ->
           BindFrom(i + 1, sorted, req, [b EXCEPT !.args = SetArg(@, d.index, "context")])
      [] OTHER ->
           BindFrom(i + 1, sorted, req, [b EXCEPT !.args = SetArg(@, d.index, "undefined")])

\* every invocation starts from an empty parsed-body cache
BindForgetsCache(r, ctx, req) ==
  BindFrom(1, SortByIndex(r.metadata.paramDecorators), req,
           [params |-> ctx.params, parsedBody |-> "undefined", args |-> <<>>,
            reads |-> 0, error |-> NoError])

Bind(r, ctx, req) ==
  BindFrom(1, SortByIndex(r.metadata.paramDecorators), req,
           [params |-> ctx.params, parsedBody |-> ctx.parsedBody, args |-> <<>>,
            reads |-> 0, error |-> NoError])

ReadEvents(n) == [i \in 1..n |-> Event("request.text", "-", 0, "read")]

\* what the handler returns: a Response object or a plain value
HandlerResponse == [status |-> 201, body |-> [text |-> "plain text"], headers |-> {}]
HandlerValue(r) == [handler |-> r.handler]

\* every handler result is wrapped in a JSON response
NormaliseAlwaysJson(outcome, r) == Json(HandlerValue(r), 200)

\* lines 218-224: a Response is returned as it is, anything else as JSON
Normalise(outcome, r) ==
  IF outcome = "response" THEN HandlerResponse ELSE Json(HandlerValue(r), 200)

\* executeHandler with paramDecorators.sort(...) on the stored list itself, which
\* the compiled route and the registry record share
executeHandlerSortsInPlace ==
  /\ pc = "executeHandler"
  /\ LET b == Bind(Route, context, request)
         entered == Append(calls, Event("executeHandler", "-", 0, "enter")) \o ReadEvents(b.reads)
     IN
       /\ context' = [context EXCEPT !.parsedBody = b.parsedBody]
       /\ IF b.error # NoError
          THEN /\ pending' = [value |-> NoResponse, error |-> b.error]
               /\ calls' = entered
               /\ pc' = "raise"
               /\ UNCHANGED args
          ELSE /\ args' = b.args
               /\ \E outcome \in {"response", "value", "throw"} :
                    /\ calls' = Append(entered, Event("handler", "-", 0, outcome))
                    /\ IF outcome = "throw"
                       THEN /\ pending' = [value |-> NoResponse,
                                           error |-> PlainError("Something broke")]
                            /\ pc' = "raise"
                       ELSE /\ pending' = [value |-> Normalise(outcome, Route),
                                           error |-> NoError]
                            /\ pc' = "return"
  /\ compiledRoutes' =
       [compiledRoutes EXCEPT ![route].metadata.paramDecorators = SortByIndex(@)]
  /\ registry' =
       setRouteMetadata(registry, ControllerOf(Route), Route.handler,
                        [Route.metadata EXCEPT !.paramDecorators = SortByIndex(@)])
  /\ UNCHANGED <<suspended, container, config, request, route, guardIndex,
                 middlewareIndex, stack, response>>

\* lines 148-225: bind the parameters, call the handler, normalise its result
executeHandler ==
  /\ pc = "executeHandler"
  /\ LET b == Bind(Route, context, request)
         entered == Append(calls, Event("executeHandler", "-", 0, "enter")) \o ReadEvents(b.reads)
     IN
       /\ context' = [context EXCEPT !.parsedBody = b.parsedBody]
       /\ IF b.error # NoError
          THEN /\ pending' = [value |-> NoResponse, error |-> b.error]
               /\ calls' = entered
               /\ pc' = "raise"
               /\ UNCHANGED args
          ELSE /\ args' = b.args
               /\ \E outcome \in {"response", "value", "throw"} :
                    /\ calls' = Append(entered, Event("handler", "-", 0, outcome))
                    /\ IF outcome = "throw"
                       THEN /\ pending' = [value |-> NoResponse,
                                           error |-> PlainError("Something broke")]
                            /\ pc' = "raise"
                       ELSE /\ pending' = [value |-> Normalise(outcome, Route),
                                           error |-> NoError]
                            /\ pc' = "return"
  /\ UNCHANGED <<suspended, registry, container, config, compiledRoutes, request, route, guardIndex,
                 middlewareIndex, stack, response>>

\* ------------------------------------------------------------ error resolution
\* error.message.startsWith('Invalid request body')
StartsWithInvalidRequestBody(message) ==
  message \in {"Invalid request body", "Invalid request body: malformed JSON",
               "Invalid request body: SyntaxError"}

\* the fallback answers with the text of the error
DefaultExceptionFilterLeaks(error) ==
  IF error.class = "HttpException"
  THEN Json(IF error.details # "undefined"
            THEN [error |-> error.message, details |-> error.details]
            ELSE [error |-> error.message],
            error.statusCode)
  ELSE IF error.name = "ZodError" /\ error.issues # "absent"
  THEN Json([error |-> "Validation failed", details |-> error.issues], 400)
  ELSE IF StartsWithInvalidRequestBody(error.message)
  THEN Json([error |-> "Bad Request", message |-> "Invalid request body"], 400)
  ELSE Json([error |-> error.message], 500)

\* details are echoed only when truthy
DefaultExceptionFilterTruthyDetails(error) ==
  IF error.class = "HttpException"
  THEN Json(IF error.details \notin {"undefined", "null"}
            THEN [error |-> error.message, details |-> error.details]
            ELSE [error |-> error.message],
            error.statusCode)
  ELSE IF error.name = "ZodError" /\ error.issues # "absent"
  THEN Json([error |-> "Validation failed", details |-> error.issues], 400)
  ELSE IF StartsWithInvalidRequestBody(error.message)
  THEN Json([error |-> "Bad Request", message |-> "Invalid request body"], 400)
  ELSE Json([error |-> "Internal Server Error"], 500)

\* exception-filter.ts lines 36-77
DefaultExceptionFilter(error) ==
  IF error.class = "HttpException"
  THEN Json(IF error.details # "undefined"
            THEN [error |-> error.message, details |-> error.details]
            ELSE [error |-> error.message],
            error.statusCode)
  ELSE IF error.name = "ZodError" /\ error.issues # "absent"
  THEN Json([error |-> "Validation failed", details |-> error.issues], 400)
  ELSE IF StartsWithInvalidRequestBody(error.message)
  THEN Json([error |-> "Bad Request", message |-> "Invalid request body"], 400)
  ELSE Json([error |-> "Internal Server Error"], 500)

\* what the application's own resolvers answer
OnErrorResponse == [status |-> 503, body |-> [legacy |-> TRUE], headers |-> {}]
CustomFilterResponse == [status |-> 422, body |-> [custom |-> TRUE], headers |-> {}]

\* lines 24-28: the context built before the route is matched
BaseContext == Context(NoParams)

\* a call of ExceptionFilter.catch(err, context) and the context it was given
FilterEvent(op, outcome, ctx) ==
  [op |-> op, level |-> "-", idx |-> 0, result |-> outcome, context |-> ctx]

\* the custom filter is asked before the legacy callback
CatchFilterFirst ==
  /\ pc = "raise"
  /\ stack = <<>>
  /\ IF config.exceptionFilter
     THEN \E outcome \in {"respond", "throw"} :
            /\ calls' = Append(calls, FilterEvent("exceptionFilter", outcome, BaseContext))
            /\ IF outcome = "respond"
               THEN response' = CustomFilterResponse /\ pc' = "done"
               ELSE response' = NoResponse /\ pc' = "rejected"
     ELSE IF config.onError
     THEN \E outcome \in {"respond", "throw"} :
            /\ calls' = Append(calls, Event("onError", "-", 0, outcome))
            /\ IF outcome = "respond"
               THEN response' = OnErrorResponse /\ pc' = "done"
               ELSE response' = NoResponse /\ pc' = "rejected"
     ELSE /\ calls' = Append(Append(calls, FilterEvent("defaultFilter", "respond", BaseContext)),
                             Event("console.error", "-", 0, pending.error.message))
          /\ response' = DefaultExceptionFilter(pending.error)
          /\ pc' = "done"
  /\ UNCHANGED <<suspended, registry, container, config, compiledRoutes, request, route, context, guardIndex,
                 middlewareIndex, stack, pending, args>>

\* a catch block whose fallback lets the error through
CatchRethrows ==
  /\ pc = "raise"
  /\ stack = <<>>
  /\ IF config.onError
     THEN \E outcome \in {"respond", "throw"} :
            /\ calls' = Append(calls, Event("onError", "-", 0, outcome))
            /\ IF outcome = "respond"
               THEN response' = OnErrorResponse /\ pc' = "done"
               ELSE response' = NoResponse /\ pc' = "rejected"
     ELSE IF config.exceptionFilter
     THEN \E outcome \in {"respond", "throw"} :
            /\ calls' = Append(calls, FilterEvent("exceptionFilter", outcome, BaseContext))
            /\ IF outcome = "respond"
               THEN response' = CustomFilterResponse /\ pc' = "done"
               ELSE response' = NoResponse /\ pc' = "rejected"
     ELSE /\ calls' = Append(calls, Event("console.error", "-", 0, pending.error.message))
          /\ response' = NoResponse
          /\ pc' = "rejected"
  /\ UNCHANGED <<suspended, registry, container, config, compiledRoutes, request, route, context, guardIndex,
                 middlewareIndex, stack, pending, args>>

\* a catch block that hands the filters the context of the dispatch
CatchHandsContext ==
  /\ pc = "raise"
  /\ stack = <<>>
  /\ IF config.onError
     THEN \E outcome \in {"respond", "throw"} :
            /\ calls' = Append(calls, Event("onError", "-", 0, outcome))
            /\ IF outcome = "respond"
               THEN response' = OnErrorResponse /\ pc' = "done"
               ELSE response' = NoResponse /\ pc' = "rejected"
     ELSE IF config.exceptionFilter
     THEN \E outcome \in {"respond", "throw"} :
            /\ calls' = Append(calls, FilterEvent("exceptionFilter", outcome, context))
            /\ IF outcome = "respond"
               THEN response' = CustomFilterResponse /\ pc' = "done"
               ELSE response' = NoResponse /\ pc' = "rejected"
     ELSE /\ calls' = Append(Append(calls, FilterEvent("defaultFilter", "respond", context)),
                             Event("console.error", "-", 0, pending.error.message))
          /\ response' = DefaultExceptionFilter(pending.error)
          /\ pc' = "done"
  /\ UNCHANGED <<suspended, registry, container, config, compiledRoutes, request, route, context, guardIndex,
                 middlewareIndex, stack, pending, args>>

\* lines 119-132: onError, else the custom filter, else the default filter
Catch ==
  /\ pc = "raise"
  /\ stack = <<>>
  /\ IF config.onError
     THEN \E outcome \in {"respond", "throw"} :
            /\ calls' = Append(calls, Event("onError", "-", 0, outcome))
            /\ IF outcome = "respond"
               THEN response' = OnErrorResponse /\ pc' = "done"
               ELSE response' = NoResponse /\ pc' = "rejected"
     ELSE IF config.exceptionFilter
     THEN \E outcome \in {"respond", "throw"} :
            /\ calls' = Append(calls, FilterEvent("exceptionFilter", outcome, BaseContext))
            /\ IF outcome = "respond"
               THEN response' = CustomFilterResponse /\ pc' = "done"
               ELSE response' = NoResponse /\ pc' = "rejected"
     ELSE /\ calls' = Append(Append(calls, FilterEvent("defaultFilter", "respond", BaseContext)),
                             Event("console.error", "-", 0, pending.error.message))
          /\ response' = DefaultExceptionFilter(pending.error)
          /\ pc' = "done"
  /\ UNCHANGED <<suspended, registry, container, config, compiledRoutes, request, route, context, guardIndex,
                 middlewareIndex, stack, pending, args>>

\* the promise of handleRequest has settled: its locals are gone and the
\* handlers wait for the next request
Settle ==
  /\ pc \in {"done", "rejected"}
  /\ pc' = "idle"
  /\ request' = NoRequest
  /\ route' = 0
  /\ context' = Context(NoParams)
  /\ guardIndex' = 0
  /\ middlewareIndex' = 0
  /\ stack' = <<>>
  /\ pending' = [value |-> NoResponse, error |-> NoError]
  /\ response' = NoResponse
  /\ args' = <<>>
  /\ calls' = <<>>
  /\ UNCHANGED <<suspended, registry, container, config, compiledRoutes>>

\* ------------------------------------------------------------ specification
Next ==
  \/ \E req \in Requests : handleRequest(req)
  \/ ResolveAuth
  \/ ControllerGuards
  \/ RouteGuards
  \/ CheckRoles
  \/ executeMiddleware
  \/ MiddlewareCallsNext
  \/ MiddlewareReturns
  \/ MiddlewareThrows
  \/ Return
  \/ Propagate
  \/ executeHandler
  \/ Catch
  \/ Settle

Spec == Init /\ [][Next]_vars

\* a handler created with neither onError nor exceptionFilter
DefaultInit == Init /\ ~config.onError /\ ~config.exceptionFilter

\* every collaborator that was called returns or throws, and the event loop
\* resumes the continuation that waits for it
DefaultSpec == DefaultInit /\ [][Next]_vars /\ WF_vars(Next)

\* ------------------------------------------------------------ two dispatches in flight
\* the locals of the running invocation
Active ==
  View(request, pc, route, context, guardIndex, middlewareIndex, stack, pending,
       response, args, calls)

\* the position in the chain is one variable for every invocation
SwitchSharedIndex ==
  /\ pc \notin {"done", "rejected"}
  /\ suspended' = Active
  /\ request' = suspended.request
  /\ pc' = suspended.pc
  /\ route' = suspended.route
  /\ context' = suspended.context
  /\ guardIndex' = suspended.guardIndex
  /\ middlewareIndex' = middlewareIndex
  /\ stack' = suspended.stack
  /\ pending' = suspended.pending
  /\ response' = suspended.response
  /\ args' = suspended.args
  /\ calls' = suspended.calls
  /\ UNCHANGED <<registry, container, config, compiledRoutes>>

\* the running invocation waits at an await and the event loop resumes the
\* other one, or lets a new request in: request, context, the loop indices,
\* the chain and its closure variable (lines 44-47, 107) are locals of
\* handleRequest
Switch ==
  /\ pc \notin {"done", "rejected"}
  /\ suspended' = Active
  /\ request' = suspended.request
  /\ pc' = suspended.pc
  /\ route' = suspended.route
  /\ context' = suspended.context
  /\ guardIndex' = suspended.guardIndex
  /\ middlewareIndex' = suspended.middlewareIndex
  /\ stack' = suspended.stack
  /\ pending' = suspended.pending
  /\ response' = suspended.response
  /\ args' = suspended.args
  /\ calls' = suspended.calls
  /\ UNCHANGED <<registry, container, config, compiledRoutes>>

\* requests that differ in path parameter, verb and body
ConcurrentRequests ==
  { [path |-> <<"items", "42">>, method |-> "GET", body |-> ""],
    [path |-> <<"items", "7">>, method |-> "GET", body |-> ""],
    [path |-> <<"uploads">>, method |-> "PUT", body |-> "{\"name\":\"Bob\"}"] }

\* one handler with an auth provider, a guarded item route with roles and a
\* middleware, and the upload routes
ConcurrentInit ==
  /\ config = [authProvider |-> TRUE, onError |-> FALSE, exceptionFilter |-> FALSE]
  /\ compiledRoutes =
       << CompiledRoute(ItemTemplate, "GET", "getById",
            [path |-> <<Param("id")>>, method |-> "GET", handler |-> "getById",
             roles |-> [defined |-> TRUE, list |-> <<"admin">>],
             guards |-> Guards("route", 1),
             middleware |-> Middlewares("route", 1),
             paramDecorators |-> <<ParamDecorator("route", "id", 0, FALSE)>>],
            [basePath |-> <<Static("items")>>,
             guards |-> <<>>,
             middleware |-> <<>>]) >>
       \o UploadRoutes
  /\ registry = RegistryOf(compiledRoutes)
  /\ container = ContainerWith({ControllerOf(compiledRoutes[i]) : i \in 1..Len(compiledRoutes)})
  /\ request = NoRequest
  /\ pc = "idle"
  /\ suspended = IdleView
  /\ route = 0
  /\ context = Context(NoParams)
  /\ guardIndex = 0
  /\ middlewareIndex = 0
  /\ stack = <<>>
  /\ pending = [value |-> NoResponse, error |-> NoError]
  /\ response = NoResponse
  /\ args = <<>>
  /\ calls = <<>>

ConcurrentNext ==
  \/ \E req \in ConcurrentRequests : handleRequest(req)
  \/ ResolveAuth
  \/ ControllerGuards
  \/ RouteGuards
  \/ CheckRoles
  \/ executeMiddleware
  \/ MiddlewareCallsNext
  \/ MiddlewareReturns
  \/ MiddlewareThrows
  \/ Return
  \/ Propagate
  \/ executeHandler
  \/ Catch
  \/ Settle
  \/ Switch

ConcurrentSpec == ConcurrentInit /\ [][ConcurrentNext]_vars

\* ------------------------------------------------------------ error resolution alone
\* the errors a collaborator may throw into the catch block
FilterErrors ==
  { HttpException(st, m, d) :
      st \in {400, 401, 403, 404, 409, 500},
      m \in {"Custom forbidden", "User 999 not found", ""},
      d \in {"undefined", "null", "reason:test"} }
  \cup
  { [PlainError(m) EXCEPT !.name = n, !.issues = i] :
      n \in {"Error", "ZodError", "SyntaxError", "TypeError"},
      m \in {"Something broke", "Validation", "Invalid request body: SyntaxError",
             "not an Invalid request body", "db password leaked"},
      i \in {"absent", "name: Required"} }

\* a matched dispatch has just thrown one of these errors, outside any middleware
FilterInit ==
  /\ config \in [authProvider : BOOLEAN, onError : BOOLEAN, exceptionFilter : BOOLEAN]
  /\ compiledRoutes =
       << CompiledRoute(ItemTemplate, "GET", "getById",
            [path |-> <<Param("id")>>, method |-> "GET", handler |-> "getById",
             roles |-> NoRoles, guards |-> <<>>, middleware |-> <<>>,
             paramDecorators |-> <<ParamDecorator("route", "id", 0, FALSE)>>],
            [basePath |-> <<Static("items")>>, guards |-> <<>>, middleware |-> <<>>]) >>
  /\ registry = RegistryOf(compiledRoutes)
  /\ container = ContainerWith({ControllerOf(compiledRoutes[i]) : i \in 1..Len(compiledRoutes)})
  /\ request = [path |-> <<"items", "42">>, method |-> "GET", body |-> ""]
  /\ pc = "raise"
  /\ suspended = IdleView
  /\ route = 1
  /\ context = Context([id |-> "42"])
  /\ guardIndex = 0
  /\ middlewareIndex = 0
  /\ stack = <<>>
  /\ \E e \in FilterErrors : pending = [value |-> NoResponse, error |-> e]
  /\ response = NoResponse
  /\ args = <<>>
  /\ calls = <<>>

FilterNext ==
  \/ Catch
  \/ Settle

FilterSpec == FilterInit /\ [][FilterNext]_vars

\* ------------------------------------------------------------ decorators
\* a class under definition: its decorators are applied one at a time
DecoratedMethods == {"profile", "list"}

DecoratorInit ==
  /\ registry = EmptyRegistry
  /\ container = EmptyContainer
  /\ config = [authProvider |-> FALSE, onError |-> FALSE, exceptionFilter |-> FALSE]
  /\ compiledRoutes = <<>>
  /\ request = NoRequest
  /\ pc = "decorating"
  /\ suspended = IdleView
  /\ route = 0
  /\ context = Context(NoParams)
  /\ guardIndex = 0
  /\ middlewareIndex = 0
  /\ stack = <<>>
  /\ pending = [value |-> NoResponse, error |-> NoError]
  /\ response = NoResponse
  /\ args = <<>>
  /\ calls = <<>>

\* one decorator application: the registry it leaves and what it threw
Decorate(name, methodName, reg, error) ==
  /\ pc = "decorating"
  /\ Len(calls) < MaxDecorators
  /\ registry' = reg
  /\ pending' = [value |-> NoResponse, error |-> error]
  /\ calls' = Append(calls, Event(name, methodName, 0,
                                  IF error = NoError THEN "applied" ELSE "throw"))
  /\ UNCHANGED <<suspended, container, config, compiledRoutes, request, pc, route, context, guardIndex,
                 middlewareIndex, stack, response, args>>

\* createMethodDecorator: the record is set to {path, method, handler}
HttpMethod(verb, path, methodName) ==
  /\ pc = "decorating"
  /\ Decorate(verb, methodName,
              setRouteMetadata(registry, "DecoratedController", methodName,
                               RouteMetadata(path, verb, methodName)),
              NoError)

RouteMetadataNotFound == PlainError("Route metadata not found")

\* Authorize: needs the record, then sets its roles
Authorize(roles, methodName) ==
  IF ~HasRouteMetadata(registry, "DecoratedController", methodName)
  THEN Decorate("Authorize", methodName, registry, RouteMetadataNotFound)
  ELSE Decorate("Authorize", methodName,
         setRouteMetadata(registry, "DecoratedController", methodName,
           [getRouteMetadata(registry, "DecoratedController", methodName)
              EXCEPT !.roles = [defined |-> TRUE, list |-> roles]]),
         NoError)

\* UseGuard: ensures the record, then appends to its guards
UseGuard(guard, methodName) ==
  /\ pc = "decorating"
  /\ LET ensured == ensureRouteMetadata(registry, "DecoratedController", methodName)
     IN Decorate("UseGuard", methodName,
          setRouteMetadata(ensured, "DecoratedController", methodName,
            [getRouteMetadata(ensured, "DecoratedController", methodName)
               EXCEPT !.guards = Append(@, guard)]),
          NoError)

\* Use: ensures the record, then appends to its middleware
Use(mw, methodName) ==
  /\ pc = "decorating"
  /\ LET ensured == ensureRouteMetadata(registry, "DecoratedController", methodName)
     IN Decorate("Use", methodName,
          setRouteMetadata(ensured, "DecoratedController", methodName,
            [getRouteMetadata(ensured, "DecoratedController", methodName)
               EXCEPT !.middleware = Append(@, mw)]),
          NoError)

\* addParamDecorator: needs the record, then pushes the binding
addParamDecorator(methodName, parameterIndex, type) ==
  IF ~HasRouteMetadata(registry, "DecoratedController", methodName)
  THEN Decorate("Param", methodName, registry, RouteMetadataNotFound)
  ELSE Decorate("Param", methodName,
         setRouteMetadata(registry, "DecoratedController", methodName,
           [getRouteMetadata(registry, "DecoratedController", methodName)
              EXCEPT !.paramDecorators =
                Append(@, ParamDecorator(type, "", parameterIndex, FALSE))]),
         NoError)

\* the class-level annotations are logged under this name
ClassLevel == "class"

\* one class-level decorator application; idx names the guard or middleware
DecorateClass(name, idx, reg) ==
  /\ pc = "decorating"
  /\ Len(calls) < MaxDecorators
  /\ registry' = reg
  /\ pending' = [value |-> NoResponse, error |-> NoError]
  /\ calls' = Append(calls, Event(name, ClassLevel, idx, "applied"))
  /\ UNCHANGED <<suspended, container, config, compiledRoutes, request, pc, route, context, guardIndex,
                 middlewareIndex, stack, response, args>>

\* a variant of Controller that stores a fresh record {basePath}
ControllerReplaces(basePath) ==
  /\ pc = "decorating"
  /\ DecorateClass("Controller", 0,
                   setControllerMetadata(registry, "DecoratedController",
                                         ControllerMetadata(basePath)))

\* Controller: ensures the class record, then sets its basePath
Controller(basePath) ==
  /\ pc = "decorating"
  /\ LET ensured == ensureControllerMetadata(registry, "DecoratedController")
     IN DecorateClass("Controller", 0,
          setControllerMetadata(ensured, "DecoratedController",
            [getControllerMetadata(ensured, "DecoratedController")
               EXCEPT !.basePath = basePath]))

\* class-level UseGuard: ensures the class record, then appends to its guards
ClassUseGuard(guard) ==
  /\ pc = "decorating"
  /\ LET ensured == ensureControllerMetadata(registry, "DecoratedController")
     IN DecorateClass("ClassUseGuard", guard.idx,
          setControllerMetadata(ensured, "DecoratedController",
            [getControllerMetadata(ensured, "DecoratedController")
               EXCEPT !.guards = Append(@, guard)]))

\* class-level Use: ensures the class record, then appends to its middleware
ClassUse(mw) ==
  /\ pc = "decorating"
  /\ LET ensured == ensureControllerMetadata(registry, "DecoratedController")
     IN DecorateClass("ClassUse", mw.idx,
          setControllerMetadata(ensured, "DecoratedController",
            [getControllerMetadata(ensured, "DecoratedController")
               EXCEPT !.middleware = Append(@, mw)]))

DecoratedBasePath == <<Static("decorated")>>

DecoratorNext ==
  \/ Controller(DecoratedBasePath)
  \/ \E i \in 1..MaxGuards : ClassUseGuard([level |-> "controller", idx |-> i])
  \/ \E i \in 1..MaxMiddleware : ClassUse([level |-> "controller", idx |-> i])
  \/ \E m \in DecoratedMethods, verb \in {"GET", "POST"} :
       HttpMethod(verb, <<Static(m)>>, m)
  \/ \E m \in DecoratedMethods, roles \in {<<>>, <<"admin">>} : Authorize(roles, m)
  \/ \E m \in DecoratedMethods : UseGuard([level |-> "route", idx |-> 1], m)
  \/ \E m \in DecoratedMethods : Use([level |-> "route", idx |-> 1], m)
  \/ \E m \in DecoratedMethods, type \in {"body", "context"} :
       addParamDecorator(m, 0, type)

DecoratorSpec == DecoratorInit /\ [][DecoratorNext]_vars

\* ------------------------------------------------------------ loader
\* s.startsWith(':') tells a parameter segment from a static one
IsStaticSegment(seg) == ~seg.dyn

\* the segments the comparator looks at: basePath and path, without the prefix
SortSegments(r) ==
  Split(normalizePath(<<r.controllerMetadata.basePath, r.metadata.path>>))

RECURSIVE compareSegments(_, _, _)
compareSegments(aSegments, bSegments, i) ==
  IF i > Len(aSegments) THEN 0
  ELSE IF aSegments[i].dyn /\ ~bSegments[i].dyn THEN 1
  ELSE IF ~aSegments[i].dyn /\ bSegments[i].dyn THEN -1
  ELSE compareSegments(aSegments, bSegments, i + 1)

\* a variant that stops after the two counts
compareRoutesCountsOnly(a, b) ==
  LET aSegments == SortSegments(a)
      bSegments == SortSegments(b)
      aStatic == Len(SelectSeq(aSegments, IsStaticSegment))
      bStatic == Len(SelectSeq(bSegments, IsStaticSegment))
  IN IF Len(aSegments) # Len(bSegments) THEN Len(bSegments) - Len(aSegments)
     ELSE bStatic - aStatic

\* a variant that ranks by the number of segments alone
compareRoutesSegmentsOnly(a, b) == Len(SortSegments(b)) - Len(SortSegments(a))

\* the comparator handed to compiledRoutes.sort
compareRoutes(a, b) ==
  LET aSegments == SortSegments(a)
      bSegments == SortSegments(b)
      aStatic == Len(SelectSeq(aSegments, IsStaticSegment))
      bStatic == Len(SelectSeq(bSegments, IsStaticSegment))
  IN IF Len(aSegments) # Len(bSegments) THEN Len(bSegments) - Len(aSegments)
     ELSE IF aStatic # bStatic THEN bStatic - aStatic
     ELSE compareSegments(aSegments, bSegments, 1)

\* a variant that puts a route in front of the routes it compares equal to
RECURSIVE InsertRouteBeforeEquals(_, _)
InsertRouteBeforeEquals(sorted, r) ==
  IF sorted = <<>> THEN <<r>>
  ELSE IF compareRoutes(Head(sorted), r) < 0
       THEN <<Head(sorted)>> \o InsertRouteBeforeEquals(Tail(sorted), r)
  ELSE <<r>> \o sorted

\* one step of the stable sort: r goes behind every route not after it
RECURSIVE InsertRoute(_, _)
InsertRoute(sorted, r) ==
  IF sorted = <<>> THEN <<r>>
  ELSE IF compareRoutes(Head(sorted), r) <= 0
       THEN <<Head(sorted)>> \o InsertRoute(Tail(sorted), r)
  ELSE <<r>> \o sorted

\* a variant that leaves the routes in the order they were pushed
SortRoutesSkipped(routes) == routes

\* Array.prototype.sort with the comparator: a stable sort
RECURSIVE SortRoutes(_)
SortRoutes(routes) ==
  IF routes = <<>> THEN <<>>
  ELSE InsertRoute(SortRoutes(SubSeq(routes, 1, Len(routes) - 1)), routes[Len(routes)])

\* new token(): the constructor of this class throws
Constructible(class) == class # "BrokenController"

CannotResolveDependency == PlainError("Cannot resolve dependency")

\* what a throwing factory lets through, unwrapped
FactoryError == PlainError("factory failed")

\* what () => new token() lets through when the constructor throws
ConstructorError == PlainError("constructor failed")

\* register(token) without an instance stores () => new token();
\* registerFactory stores the function it is given
ConstructFactory == "construct"
CustomFactory == "custom"

\* instances.set(token, instance)
Cache(c, token, instance) ==
  [c EXCEPT !.instances =
     [t \in DOMAIN c.instances \cup {token} |->
        IF t = token THEN instance ELSE c.instances[t]]]

GetResult(c, instance, error, ran) ==
  [container |-> c, instance |-> instance, error |-> error, ran |-> ran]

\* a get that hands out what it built and stores nothing
GetUncached(c, token, serial, outcome) ==
  IF token \in DOMAIN c.factories
  THEN IF c.factories[token] = CustomFactory
       THEN IF outcome = "threw"
            THEN GetResult(c, NoInstance, FactoryError, "factory")
            ELSE GetResult(c, Instance(token, serial), NoError, "factory")
       ELSE IF Constructible(token)
            THEN GetResult(c, Instance(token, serial), NoError, "factory")
            ELSE GetResult(c, NoInstance, ConstructorError, "factory")
  ELSE IF Constructible(token)
       THEN GetResult(c, Instance(token, serial), NoError, "new")
       ELSE GetResult(c, NoInstance, CannotResolveDependency, "new")

\* container.ts 31-54: the cached instance, else the factory's, else new
\* token(); serial names the object a construction would make, outcome is
\* what a custom factory does when it is run
Get(c, token, serial, outcome) ==
  IF token \in DOMAIN c.instances
  THEN GetResult(c, c.instances[token], NoError, "none")
  ELSE IF token \in DOMAIN c.factories
  THEN IF c.factories[token] = CustomFactory
       THEN IF outcome = "threw"
            THEN GetResult(c, NoInstance, FactoryError, "factory")
            ELSE GetResult(Cache(c, token, Instance(token, serial)),
                           Instance(token, serial), NoError, "factory")
       ELSE IF Constructible(token)
            THEN GetResult(Cache(c, token, Instance(token, serial)),
                           Instance(token, serial), NoError, "factory")
            ELSE GetResult(c, NoInstance, ConstructorError, "factory")
  ELSE IF Constructible(token)
       THEN GetResult(Cache(c, token, Instance(token, serial)),
                      Instance(token, serial), NoError, "new")
       ELSE GetResult(c, NoInstance, CannotResolveDependency, "new")

\* the members of a controller instance that are functions
Methods(class) ==
  IF class = "ProductController"
  THEN {"list", "featured", "popular", "getById", "find", "reviews", "special", "create",
        "audit"}
  ELSE IF class = "HomeController" THEN {"page"}
  ELSE {"ping"}

HandlerIsNotAFunction == PlainError("Handler is not a function on controller")

\* a loop that leaves out a record whose handler is not a function
RECURSIVE compileRoutesLenient(_, _, _, _, _)
compileRoutesLenient(class, routes, prefix, controllerMetadata, acc) ==
  IF routes = <<>> \/ acc.error # NoError THEN acc
  ELSE LET routeMetadata == Head(routes)
           fullPath == normalizePath(<<prefix, controllerMetadata.basePath,
                                       routeMetadata.path>>)
       IN IF routeMetadata.handler \notin Methods(class)
          THEN compileRoutesLenient(class, Tail(routes), prefix, controllerMetadata, acc)
          ELSE compileRoutesLenient(class, Tail(routes), prefix, controllerMetadata,
                 [acc EXCEPT !.routes =
                    Append(@, CompiledRoute(fullPath, routeMetadata.method,
                                            routeMetadata.handler, routeMetadata,
                                            controllerMetadata))])

\* the inner loop of loadControllers over the route records of one controller
RECURSIVE compileRoutes(_, _, _, _, _)
compileRoutes(class, routes, prefix, controllerMetadata, acc) ==
  IF routes = <<>> \/ acc.error # NoError THEN acc
  ELSE LET routeMetadata == Head(routes)
           fullPath == normalizePath(<<prefix, controllerMetadata.basePath,
                                       routeMetadata.path>>)
       IN IF routeMetadata.handler \notin Methods(class)
          THEN [acc EXCEPT !.error = HandlerIsNotAFunction]
          ELSE compileRoutes(class, Tail(routes), prefix, controllerMetadata,
                 [acc EXCEPT !.routes =
                    Append(@, CompiledRoute(fullPath, routeMetadata.method,
                                            routeMetadata.handler, routeMetadata,
                                            controllerMetadata))])

\* a variant that treats a class without controller metadata as an error
RECURSIVE loadFromStrict(_, _, _, _)
loadFromStrict(controllers, prefix, reg, acc) ==
  IF controllers = <<>> \/ acc.error # NoError THEN acc
  ELSE LET class == Head(controllers)
           instance == Get(acc.container, class,
                           Cardinality(DOMAIN acc.container.instances) + 1, "returned")
           got == [acc EXCEPT !.container = instance.container]
       IN IF instance.error # NoError
          THEN [acc EXCEPT !.error = instance.error]
          ELSE IF ~HasControllerMetadata(reg, class)
          THEN [got EXCEPT !.error = PlainError("Controller has no metadata")]
          ELSE loadFromStrict(Tail(controllers), prefix, reg,
                              compileRoutes(class, getAllRouteMetadata(reg, class), prefix,
                                            getControllerMetadata(reg, class), got))

\* the outer loop: instance from the container, then the metadata check
RECURSIVE loadFrom(_, _, _, _)
loadFrom(controllers, prefix, reg, acc) ==
  IF controllers = <<>> \/ acc.error # NoError THEN acc
  ELSE LET class == Head(controllers)
           instance == Get(acc.container, class,
                           Cardinality(DOMAIN acc.container.instances) + 1, "returned")
           got == [acc EXCEPT !.container = instance.container]
       IN IF instance.error # NoError
          THEN [acc EXCEPT !.error = instance.error]
          ELSE IF ~HasControllerMetadata(reg, class)
          THEN loadFrom(Tail(controllers), prefix, reg,
                        [got EXCEPT !.warnings = Append(@, class)])
          ELSE loadFrom(Tail(controllers), prefix, reg,
                        compileRoutes(class, getAllRouteMetadata(reg, class), prefix,
                                      getControllerMetadata(reg, class), got))

\* loadControllers(controllers, prefix): the sorted list, or the error thrown
loadControllers(controllers, prefix) ==
  /\ pc = "loading"
  /\ LET result == loadFrom(controllers, prefix, registry,
                            [routes |-> <<>>, warnings |-> <<>>,
                             container |-> container, error |-> NoError])
     IN /\ container' = result.container
        /\ calls' = calls \o [i \in 1..Len(result.warnings) |->
                               Event("console.warn", result.warnings[i], 0, "has no metadata")]
        /\ IF result.error # NoError
           THEN /\ pc' = "load-throw"
                /\ pending' = [value |-> NoResponse, error |-> result.error]
                /\ UNCHANGED compiledRoutes
           ELSE /\ pc' = "loaded"
                /\ compiledRoutes' = SortRoutes(result.routes)
                /\ UNCHANGED pending
  /\ UNCHANGED <<suspended, registry, config, request, route, context, guardIndex,
                 middlewareIndex, stack, response, args>>

\* one call of matchRoute on the loaded list
MatchRequest(req) ==
  /\ pc = "loaded"
  /\ LET match == matchRoute(req.path, req.method, compiledRoutes)
     IN /\ route' = match.route
        /\ context' = Context(match.params)
  /\ request' = req
  /\ pc' = "matched"
  /\ UNCHANGED <<suspended, registry, container, config, compiledRoutes, guardIndex,
                 middlewareIndex, stack, pending, response, args, calls>>

\* the annotations a method of the product controller may carry: a verb
\* annotation with its path, or a guard alone
Declared(handler, method, path) ==
  [handler |-> handler, method |-> method, path |-> path, verb |-> TRUE]

\* @UseGuard(guard) on a method that has no verb annotation
GuardOnly(handler) ==
  [handler |-> handler, method |-> "GET", path |-> <<>>, verb |-> FALSE]

RoutePool ==
  { Declared("list", "GET", <<Slash>>),
    Declared("create", "POST", <<Slash>>),
    Declared("featured", "GET", <<Slash, Static("featured")>>),
    Declared("popular", "GET", <<Static("popular")>>),
    Declared("getById", "GET", <<Slash, Param("id")>>),
    Declared("find", "GET", <<Slash, OptionalParam("id")>>),
    Declared("reviews", "GET", <<Slash, Param("id"), Slash, Static("reviews")>>),
    Declared("special", "GET", <<Slash, Static("special"), Slash, Param("x")>>),
    Declared("version", "GET", <<Slash, Static("version")>>),
    GuardOnly("audit") }

\* the methods of the class in declaration order, each declared once
Declarations ==
  { d \in UNION { [1..n -> RoutePool] : n \in 0..MaxRoutes } :
      \A i, j \in 1..Len(d) : i # j => d[i].handler # d[j].handler }

ProductBasePath == <<Slash, Static("products")>>

HomeBasePath == <<Slash>>

\* middleware.ts 18-35: the record is ensured, the guard appended to its guards
WithGuard(reg, target, methodName, guard) ==
  LET ensured == ensureRouteMetadata(reg, target, methodName)
  IN setRouteMetadata(ensured, target, methodName,
       [getRouteMetadata(ensured, target, methodName) EXCEPT !.guards = Append(@, guard)])

\* the registry after the classes were defined: the method annotations of the
\* product controller in declaration order, then its Controller annotation;
\* a class with one verb annotation and no Controller annotation; a home
\* controller at the root with one two-parameter route
RECURSIVE RegistryFor(_)
RegistryFor(d) ==
  IF d = <<>>
  THEN setControllerMetadata(
         setRouteMetadata(
           setRouteMetadata(EmptyRegistry, "NotDecorated", "ping",
                            RouteMetadata(<<Slash, Static("ping")>>, "GET", "ping")),
           "HomeController", "page",
           RouteMetadata(<<Slash, Param("section"), Slash, Param("slug")>>, "GET", "page")),
         "HomeController", ControllerMetadata(HomeBasePath))
  ELSE LET last == d[Len(d)]
           before == RegistryFor(SubSeq(d, 1, Len(d) - 1))
       IN IF last.verb
          THEN setRouteMetadata(before, "ProductController", last.handler,
                                RouteMetadata(last.path, last.method, last.handler))
          ELSE WithGuard(before, "ProductController", last.handler,
                         [level |-> "route", idx |-> 1])

ControllerLists ==
  { <<"ProductController">>,
    <<"NotDecorated", "ProductController">>,
    <<"ProductController", "NotDecorated">>,
    <<"BrokenController", "ProductController">>,
    <<"HomeController", "ProductController">>,
    <<"ProductController", "HomeController">> }

Prefixes == { <<>>, <<Slash, Static("api")>> }

\* pathnames below the prefix
Pathnames ==
  { <<"products">>, <<"products", "featured">>, <<"products", "42">>,
    <<"products", "42", "reviews">>, <<"products", "special", "7">>, <<"nothing">> }

\* the texts of a sequence of static segments
RECURSIVE Names(_)
Names(segments) ==
  IF segments = <<>> THEN <<>> ELSE <<Head(segments).name>> \o Names(Tail(segments))

LoaderRequests(prefix) ==
  { [path |-> Names(Split(prefix)) \o p, method |-> m, body |-> ""] :
      p \in Pathnames, m \in {"GET", "POST"} }

LoaderInit ==
  /\ \E d \in Declarations :
       registry = setControllerMetadata(RegistryFor(d), "ProductController",
                                        ControllerMetadata(ProductBasePath))
  /\ container = EmptyContainer
  /\ config = [authProvider |-> FALSE, onError |-> FALSE, exceptionFilter |-> FALSE]
  /\ compiledRoutes = <<>>
  /\ request = NoRequest
  /\ pc = "loading"
  /\ suspended = IdleView
  /\ route = 0
  /\ context = Context(NoParams)
  /\ guardIndex = 0
  /\ middlewareIndex = 0
  /\ stack = <<>>
  /\ pending = [value |-> NoResponse, error |-> NoError]
  /\ response = NoResponse
  /\ \E controllers \in ControllerLists, prefix \in Prefixes : args = <<controllers, prefix>>
  /\ calls = <<>>

LoaderNext ==
  \/ loadControllers(args[1], args[2])
  \/ \E req \in LoaderRequests(args[2]) : MatchRequest(req)

LoaderSpec == LoaderInit /\ [][LoaderNext]_vars

\* ------------------------------------------------------------ path normalisation
PathTokens == {Slash, Static("a")}

PathTexts == UNION { [1..n -> PathTokens] : n \in 0..MaxPathLen }

\* three path arguments, normalised in one call or in two nested calls
NormalizeInit ==
  /\ registry = EmptyRegistry
  /\ container = EmptyContainer
  /\ config = [authProvider |-> FALSE, onError |-> FALSE, exceptionFilter |-> FALSE]
  /\ compiledRoutes = <<>>
  /\ request = NoRequest
  /\ pc = "normalizing"
  /\ suspended = IdleView
  /\ route = 0
  /\ context = Context(NoParams)
  /\ guardIndex = 0
  /\ middlewareIndex = 0
  /\ stack = <<>>
  /\ pending = [value |-> NoResponse, error |-> NoError]
  /\ response = NoResponse
  /\ args \in PathTexts \X PathTexts \X PathTexts
  /\ calls = <<>>

NormalizeCall(name, result) ==
  /\ pc = "normalizing"
  /\ \A p \in 1..Len(calls) : calls[p].op # name
  /\ calls' = Append(calls, Event(name, "-", 0, result))
  /\ UNCHANGED <<suspended, registry, container, config, compiledRoutes, request, pc, route,
                 context, guardIndex, middlewareIndex, stack, pending, response, args>>

\* normalizePath(a, b, c)
NormalizeDirect ==
  /\ pc = "normalizing"
  /\ NormalizeCall("direct", normalizePath(args))

\* normalizePath(normalizePath(a, b), c)
NormalizeNested ==
  /\ pc = "normalizing"
  /\ NormalizeCall("nested", normalizePath(<<normalizePath(<<args[1], args[2]>>), args[3]>>))

NormalizeNext == NormalizeDirect \/ NormalizeNested

NormalizeSpec == NormalizeInit /\ [][NormalizeNext]_vars

\* ------------------------------------------------------------ the container alone
ContainerTokens == {"ProductController", "BrokenController"}

\* the requests on whose behalf the container is asked
ContainerCallers == 1..2

ContainerEvent(op, token, caller, result, instance, ran) ==
  [op |-> op, level |-> token, idx |-> caller, result |-> result,
   instance |-> instance, ran |-> ran]

\* the constructions that have completed so far
Built ==
  Cardinality({ p \in 1..Len(calls) :
                  calls[p].op = "get" /\ calls[p].ran # "none" /\ calls[p].result = "returned" })

ContainerInit ==
  /\ registry = EmptyRegistry
  /\ container = EmptyContainer
  /\ config = [authProvider |-> FALSE, onError |-> FALSE, exceptionFilter |-> FALSE]
  /\ compiledRoutes = <<>>
  /\ request = NoRequest
  /\ pc = "container"
  /\ suspended = IdleView
  /\ route = 0
  /\ context = Context(NoParams)
  /\ guardIndex = 0
  /\ middlewareIndex = 0
  /\ stack = <<>>
  /\ pending = [value |-> NoResponse, error |-> NoError]
  /\ response = NoResponse
  /\ args = <<>>
  /\ calls = <<>>

\* container.get(token), a synchronous call made for one of the callers
get(token, caller) ==
  /\ pc = "container"
  /\ Len(calls) < MaxContainerCalls
  /\ \E outcome \in {"returned", "threw"} :
       LET r == Get(container, token, Built + 1, outcome)
       IN /\ container' = r.container
          /\ pending' = [value |-> NoResponse, error |-> r.error]
          /\ calls' = Append(calls,
                 ContainerEvent("get", token, caller,
                                IF r.error = NoError THEN "returned" ELSE "threw",
                                r.instance, r.ran))
  /\ UNCHANGED <<suspended, registry, config, compiledRoutes, request, pc, route, context,
                 guardIndex, middlewareIndex, stack, response, args>>

\* lines 13-19: with an instance the instance is stored, without one the
\* factory () => new token()
register(token, given) ==
  /\ pc = "container"
  /\ Len(calls) < MaxContainerCalls
  /\ container' =
       IF given THEN Cache(container, token, Instance(token, 0 - (Len(calls) + 1)))
       ELSE [container EXCEPT !.factories =
               [t \in DOMAIN container.factories \cup {token} |->
                  IF t = token THEN ConstructFactory ELSE container.factories[t]]]
  /\ calls' = Append(calls, ContainerEvent("register", token, 0, "returned", NoInstance, "none"))
  /\ UNCHANGED <<suspended, registry, config, compiledRoutes, request, pc, route, context,
                 guardIndex, middlewareIndex, stack, pending, response, args>>

\* lines 24-26
registerFactory(token) ==
  /\ pc = "container"
  /\ Len(calls) < MaxContainerCalls
  /\ container' =
       [container EXCEPT !.factories =
          [t \in DOMAIN container.factories \cup {token} |->
             IF t = token THEN CustomFactory ELSE container.factories[t]]]
  /\ calls' = Append(calls, ContainerEvent("registerFactory", token, 0, "returned",
                                           NoInstance, "none"))
  /\ UNCHANGED <<suspended, registry, config, compiledRoutes, request, pc, route, context,
                 guardIndex, middlewareIndex, stack, pending, response, args>>

\* lines 66-69
clear ==
  /\ pc = "container"
  /\ Len(calls) < MaxContainerCalls
  /\ container' = EmptyContainer
  /\ calls' = Append(calls, ContainerEvent("clear", "-", 0, "returned", NoInstance, "none"))
  /\ UNCHANGED <<suspended, registry, config, compiledRoutes, request, pc, route, context,
                 guardIndex, middlewareIndex, stack, pending, response, args>>

ContainerNext ==
  \/ \E token \in ContainerTokens, caller \in ContainerCallers : get(token, caller)
  \/ \E token \in ContainerTokens, given \in BOOLEAN : register(token, given)
  \/ \E token \in ContainerTokens : registerFactory(token)
  \/ clear

ContainerSpec == ContainerInit /\ [][ContainerNext]_vars

\* ------------------------------------------------------------ observations
Matched == route # 0

AllGuards == Route.controllerMetadata.guards \o Route.metadata.guards

GuardReturnedTrueBefore(g, p) ==
  \E q \in 1..(p - 1) : calls[q] = Event("guard", g.level, g.idx, "true")

AllGuardsTrue ==
  \A i \in 1..Len(AllGuards) : GuardReturnedTrueBefore(AllGuards[i], Len(calls) + 1)

HandlerInvoked == \E p \in 1..Len(calls) : calls[p].op \in {"executeHandler", "handler"}

MiddlewareInvoked == \E p \in 1..Len(calls) : calls[p].op = "middleware"

ChainEntered == HandlerInvoked \/ MiddlewareInvoked

\* the dispatch is past role authorization and went on to the chain
RoleStepPassed ==
  Matched /\ (pc \in {"executeMiddleware", "executeHandler"} \/ ChainEntered)

\* the dispatch was ended by e before any middleware or the handler ran
EndedBy(e) ==
  /\ Matched
  /\ pc \in {"raise", "done", "rejected"}
  /\ pending.error = e
  /\ ~ChainEntered

PastRoleStep ==
  Matched /\ AllGuardsTrue /\ pc \notin {"auth", "controllerGuards", "routeGuards", "roles"}

DefaultResolution == ~config.onError /\ ~config.exceptionFilter

\* the role condition as the specification words it
RolesSatisfied(roles, auth) ==
  \/ ~roles.defined
  \/ /\ auth.present
     /\ (roles.list = <<>> \/ Range(roles.list) \cap Range(auth.roles) # {})

\* C1: the handler, and any middleware, is invoked only after every
\* controller-level and every route-level guard of the matched route has
\* returned true and with the role condition satisfied.
C1_HandlerOnlyAfterChecks ==
  \A p \in 1..Len(calls) :
    calls[p].op \in {"middleware", "next", "executeHandler", "handler", "request.text"} =>
      /\ \A i \in 1..Len(AllGuards) : GuardReturnedTrueBefore(AllGuards[i], p)
      /\ RolesSatisfied(Route.metadata.roles, context.auth)

C1_Witness ==
  /\ Matched
  /\ Len(Route.controllerMetadata.guards) >= 1
  /\ Len(Route.metadata.guards) >= 1
  /\ Route.metadata.roles.defined
  /\ Len(Route.metadata.roles.list) >= 1
  /\ MiddlewareInvoked
  /\ \E p \in 1..Len(calls) : calls[p].op = "handler"

\* the request matches no compiled route (stated without the matcher's scan)
NoRouteMatches(req) ==
  ~\E i \in 1..Len(compiledRoutes) :
     /\ compiledRoutes[i].method = req.method
     /\ PatternMatches(compiledRoutes[i].pattern, req.path)

\* C2: a request that matches no compiled route is answered 404 with body
\* {error: 'Route not found', path, method} at once, and no collaborator
\* (auth provider, guard, middleware, handler, onError, exception filter) runs.
C2_NoMatchIs404 ==
  (request # NoRequest /\ NoRouteMatches(request)) =>
    /\ pc = "done"
    /\ response.status = 404
    /\ response.body = [error |-> "Route not found", path |-> request.path,
                        method |-> request.method]
    /\ calls = <<>>

C2_Witness ==
  /\ request = [path |-> <<"items", "42">>, method |-> "DELETE", body |-> ""]
  /\ config.authProvider /\ config.onError
  /\ response.status = 404

Unauthenticated == UnauthorizedException("Authentication required", "undefined")

\* C3 as stated: on a route whose roles field is present, a request without an
\* AuthContext is answered 401 'Authentication required' (by the default
\* filter) and its handler is not invoked.
C3_Original ==
  (Matched /\ pc = "done" /\ DefaultResolution
     /\ Route.metadata.roles.defined /\ ~context.auth.present) =>
    /\ response.status = 401
    /\ response.body = [error |-> "Authentication required"]
    /\ ~HandlerInvoked

\* C3 amended: on a route whose roles field is present (even the empty list), a
\* request without an AuthContext never reaches a middleware or the handler,
\* and when it has passed every guard it fails with the 401 'Authentication
\* required' failure, which the default filter answers with status 401 and
\* that message.
C3_UnauthenticatedIs401 ==
  (Matched /\ Route.metadata.roles.defined /\ ~context.auth.present /\ pc # "auth") =>
    /\ ~ChainEntered
    /\ PastRoleStep =>
         /\ EndedBy(Unauthenticated)
         /\ (pc = "done" /\ DefaultResolution) =>
              response = Json([error |-> "Authentication required"], 401)

C3_Witness ==
  /\ Matched
  /\ Route.metadata.roles = [defined |-> TRUE, list |-> <<>>]
  /\ Len(AllGuards) >= 1
  /\ \E p \in 1..Len(calls) : calls[p] = Event("authProvider", "-", 0, "throw")
  /\ pc = "done"
  /\ response.status = 401

\* C4: with roles present, an AuthContext attached and every guard passed, the
\* role check passes exactly when roles is empty or shares an element with
\* auth.roles; otherwise the dispatch fails with a 403 failure (status 403
\* from the default filter) and neither a middleware nor the handler runs.
C4_RoleCheck ==
  (PastRoleStep /\ Route.metadata.roles.defined /\ context.auth.present) =>
    IF \/ Route.metadata.roles.list = <<>>
       \/ Range(Route.metadata.roles.list) \cap Range(context.auth.roles) # {}
    THEN RoleStepPassed
    ELSE /\ ~ChainEntered
         /\ pc \in {"raise", "done", "rejected"}
         /\ pending.error.class = "HttpException"
         /\ pending.error.statusCode = 403
         /\ (pc = "done" /\ DefaultResolution) => response.status = 403

C4_Witness ==
  /\ Matched
  /\ Route.metadata.roles.list = <<"editor", "admin">>
  /\ context.auth.roles = <<"admin">>
  /\ \E p \in 1..Len(calls) : calls[p].op = "handler"

RoleStepErrors ==
  { Unauthenticated, ForbiddenException("Insufficient permissions", "undefined") }

\* C5: on a route whose roles field is undefined the role step does nothing: a
\* request without an AuthContext that passed every guard goes on to the
\* middleware chain and the handler, and no 401 or 403 comes from the role step.
C5_NoRolesNoOp ==
  (Matched /\ ~Route.metadata.roles.defined) =>
    /\ pending.error \notin RoleStepErrors
    /\ (PastRoleStep /\ ~context.auth.present) =>
         /\ RoleStepPassed
         /\ (pc \notin {"executeMiddleware", "executeHandler"}) =>
              IF MiddlewareChain(Route) = <<>> THEN HandlerInvoked ELSE MiddlewareInvoked

C5_Witness ==
  /\ Matched
  /\ ~Route.metadata.roles.defined
  /\ ~context.auth.present
  /\ Len(AllGuards) >= 1
  /\ MiddlewareInvoked
  /\ \E p \in 1..Len(calls) : calls[p].op = "handler"
  /\ pc = "done"

\* C6: under the default filter, the 403 response to an authenticated request
\* that fails the role check carries the route's required-roles list in its body.
C6_RolesInBody ==
  (PastRoleStep /\ pc = "done" /\ DefaultResolution /\ ~ChainEntered
     /\ Route.metadata.roles.defined /\ context.auth.present
     /\ response.status = 403) =>
    /\ "details" \in DOMAIN response.body
    /\ response.body.details = Route.metadata.roles.list

IsGuardEvent(e) == e.op = "guard"

GuardEvents == SelectSeq(calls, IsGuardEvent)

\* C7: guards run one at a time, the controller-level list in order and then
\* the route-level list in order; the first guard to return false ends the
\* evaluation with the 403 'Access denied by guard' failure, and no later
\* guard, no middleware and no handler is invoked.
C7_GuardOrder ==
  Matched =>
    /\ Len(GuardEvents) <= Len(AllGuards)
    /\ \A i \in 1..Len(GuardEvents) :
         /\ GuardEvents[i].level = AllGuards[i].level
         /\ GuardEvents[i].idx = AllGuards[i].idx
         /\ i < Len(GuardEvents) => GuardEvents[i].result = "true"
    /\ \A i \in 1..Len(GuardEvents) :
         GuardEvents[i].result = "false" =>
           /\ i = Len(GuardEvents)
           /\ ~ChainEntered
           /\ pc \in {"raise", "done", "rejected"}
           /\ pending.error = ForbiddenException("Access denied by guard", "undefined")
           /\ (pc = "done" /\ DefaultResolution) =>
                response = Json([error |-> "Access denied by guard"], 403)

C7_Witness ==
  /\ Matched
  /\ Len(Route.controllerMetadata.guards) = 1
  /\ Len(Route.metadata.guards) = 1
  /\ Len(GuardEvents) = 2
  /\ GuardEvents[2] = Event("guard", "route", 1, "false")
  /\ pc = "done"
  /\ response.status = 403

ProviderGaveNothing ==
  \E p \in 1..Len(calls) :
    calls[p].op = "authProvider" /\ calls[p].result \in {"null", "throw"}

\* C8: when the auth provider throws or returns null the dispatch does not fail
\* there: it goes on without an AuthContext, a route without roles whose guards
\* pass still reaches its chain and handler, and only a route with roles
\* present reacts, with the 401 failure.
C8_ProviderFailureNotFatal ==
  ProviderGaveNothing =>
    /\ ~context.auth.present
    /\ (calls[Len(calls)].op = "authProvider" /\ pc \in {"raise", "done", "rejected"}) =>
         (Route.metadata.roles.defined /\ pending.error = Unauthenticated)
    /\ pending.error = Unauthenticated => Route.metadata.roles.defined
    /\ (PastRoleStep /\ ~Route.metadata.roles.defined) =>
         /\ RoleStepPassed
         /\ (MiddlewareChain(Route) = <<>> /\ pc \notin {"executeMiddleware", "executeHandler"})
              => HandlerInvoked
    /\ (PastRoleStep /\ Route.metadata.roles.defined) => EndedBy(Unauthenticated)

C8_Witness ==
  /\ \E p \in 1..Len(calls) : calls[p] = Event("authProvider", "-", 0, "throw")
  /\ ~Route.metadata.roles.defined
  /\ Len(AllGuards) >= 1
  /\ \E p \in 1..Len(calls) : calls[p].op = "handler"
  /\ pc = "done"
  /\ response.status = 200

Chain == MiddlewareChain(Route)

IsRun(e) == e.op = "middleware" /\ e.result = "run"

RunEvents == SelectSeq(calls, IsRun)

NextBy(mw) == Event("next", mw.level, mw.idx, "call")

Resolved ==
  \E p \in 1..Len(calls) : calls[p].op \in {"onError", "exceptionFilter", "defaultFilter"}

\* C9: the chain is the controller-level list followed by the route-level
\* list; middleware k+1 starts only when middleware k calls its continue
\* callback, the handler is invoked only when the last middleware calls
\* continue, and the response of the dispatch is what the first middleware
\* returned.
C9_ChainOfResponsibility ==
  Matched =>
    /\ Len(RunEvents) <= Len(Chain)
    /\ \A k \in 1..Len(RunEvents) :
         RunEvents[k] = Event("middleware", Chain[k].level, Chain[k].idx, "run")
    /\ \A p \in 1..Len(calls), k \in 2..Len(Chain) :
         calls[p] = Event("middleware", Chain[k].level, Chain[k].idx, "run") =>
           (p > 1 /\ calls[p - 1] = NextBy(Chain[k - 1]))
    /\ \A p \in 1..Len(calls) :
         (calls[p].op = "executeHandler" /\ Chain # <<>>) =>
           (p > 1 /\ calls[p - 1] = NextBy(Chain[Len(Chain)]))
    /\ (pc = "done" /\ Chain # <<>> /\ ~Resolved) =>
         /\ calls[Len(calls)] = Event("middleware", Chain[1].level, Chain[1].idx, "return")
         /\ response = pending.value

\* C10: a middleware that returns without ever calling its continue callback
\* short-circuits the chain: after it no later middleware runs and neither
\* parameter binding nor the handler is invoked.
C10_ShortCircuit ==
  Matched =>
    \A k \in 1..Len(Chain) :
      \A p \in 1..Len(calls), q \in 1..Len(calls) :
        ( /\ p < q
          /\ calls[p] = Event("middleware", Chain[k].level, Chain[k].idx, "run")
          /\ calls[q] = Event("middleware", Chain[k].level, Chain[k].idx, "return")
          /\ \A r \in p..q : calls[r] # NextBy(Chain[k]) ) =>
        \A r \in (q + 1)..Len(calls) :
          /\ calls[r].op \notin {"executeHandler", "handler", "request.text"}
          /\ ~IsRun(calls[r])

HandlerCalled == \E p \in 1..Len(calls) : calls[p].op = "handler"

ParamDecorators == Route.metadata.paramDecorators

BoundAt(i) == \E k \in 1..Len(ParamDecorators) : ParamDecorators[k].index = i

\* the value a binding stands for, read off the request and its context
ResolvedValue(d) ==
  CASE d.type = "body" ->
         IF d.validator THEN ValidatorReturn(context.parsedBody) ELSE context.parsedBody
    [] d.type = "route" -> context.params[d.key]
    [] d.type = "context" -> "context"
    [] OTHER -> "undefined"

\* C11: the handler's argument list has, at position i, the value resolved for
\* the binding whose parameterIndex is i, whatever the order in which the
\* bindings were recorded, and undefined at every position without a binding.
C11_PositionalArguments ==
  (Matched /\ HandlerCalled) =>
    /\ \A k \in 1..Len(ParamDecorators) :
         /\ ParamDecorators[k].index + 1 <= Len(args)
         /\ args[ParamDecorators[k].index + 1] = ResolvedValue(ParamDecorators[k])
    /\ \A i \in 1..Len(args) :
         IF BoundAt(i - 1) THEN TRUE ELSE args[i] = "undefined"
    /\ Len(args) >= 1 => BoundAt(Len(args) - 1)

C11_Witness ==
  /\ Matched
  /\ Route.handler = "replace"
  /\ ParamDecorators[1].index = 2
  /\ HandlerCalled
  /\ args = <<"{\"name\":\"Bob\"}", "undefined", "{\"name\":\"Bob\"}">>

IsRead(e) == e.op = "request.text"

Reads == Len(SelectSeq(calls, IsRead))

HasBodyBinding ==
  \E k \in 1..Len(ParamDecorators) : ParamDecorators[k].type = "body"

IsHandlerCall(e) == e.op = "handler"

HasValidator ==
  \E k \in 1..Len(ParamDecorators) :
    ParamDecorators[k].type = "body" /\ ParamDecorators[k].validator

\* C13: a body binding with a validator hands the handler what the validator
\* returned; when the validator throws the handler is not invoked and the
\* failure goes to error resolution, where the default filter answers a
\* ZodError carrying issues with 400, error 'Validation failed' and the issues
\* as details.
C13_ValidatorResult ==
  (Matched /\ HasValidator) =>
    /\ HandlerCalled =>
         \A k \in 1..Len(ParamDecorators) :
           (ParamDecorators[k].type = "body" /\ ParamDecorators[k].validator) =>
             /\ ValidatorAccepts(context.parsedBody)
             /\ args[ParamDecorators[k].index + 1] = ValidatorReturn(context.parsedBody)
    /\ (context.parsedBody # "undefined" /\ ~ValidatorAccepts(context.parsedBody)) =>
         /\ ~HandlerCalled
         /\ pc \in {"raise", "done", "rejected"}
         /\ pending.error = ZodError("name: Required")
         /\ (pc = "done" /\ DefaultResolution) =>
              response = Json([error |-> "Validation failed",
                               details |-> pending.error.issues], 400)

C13_Witness ==
  /\ Matched
  /\ Route.handler = "create"
  /\ request.body = "{}"
  /\ pending.error.name = "ZodError"
  /\ pc = "done"
  /\ response.status = 400
  /\ response.body.error = "Validation failed"

AnsweredByDefaultFilter ==
  \E p \in 1..Len(calls) : calls[p].op = "defaultFilter"

\* C14: a request with a malformed JSON body on a route with a body binding is
\* answered by the default filter with status 400 and the generic 'Invalid
\* request body' message, not with 500.
C14_MalformedBodyIs400 ==
  (Matched /\ HasBodyBinding /\ ~ParseBody(request.body).ok
     /\ pc = "done" /\ AnsweredByDefaultFilter) =>
    response = Json([error |-> "Bad Request", message |-> "Invalid request body"], 400)

IsResolver(e) == e.op \in {"onError", "exceptionFilter", "defaultFilter"}

ResolverEvents == SelectSeq(calls, IsResolver)

\* C16: every failure caught by the dispatch is resolved by exactly one
\* resolver, invoked once: onError when configured, else the custom
\* exceptionFilter when configured, else the default filter.
C16_OneResolver ==
  /\ Len(ResolverEvents) <= 1
  /\ ResolverEvents # <<>> => pending.error # NoError
  /\ (pc \in {"done", "rejected"} /\ pending.error # NoError) =>
       /\ Len(ResolverEvents) = 1
       /\ ResolverEvents[1].op =
            IF config.onError THEN "onError"
            ELSE IF config.exceptionFilter THEN "exceptionFilter"
            ELSE "defaultFilter"
       /\ (pc = "done" /\ config.onError) => response = OnErrorResponse
       /\ (pc = "done" /\ ~config.onError /\ config.exceptionFilter) =>
            response = CustomFilterResponse

C16_Witness ==
  /\ config.onError
  /\ config.exceptionFilter
  /\ pending.error = PlainError("Something broke")
  /\ pc = "done"
  /\ response.status = 503

Unclassified(e) ==
  /\ e.class # "HttpException"
  /\ ~(e.name = "ZodError" /\ e.issues # "absent")
  /\ e.message \notin {"Invalid request body", "Invalid request body: malformed JSON",
                       "Invalid request body: SyntaxError"}

\* C17: under the default filter the response to an unclassified failure is the
\* same for every such error: status 500 and body exactly
\* {error: 'Internal Server Error'}, so nothing of the error shows in it.
C17_UnclassifiedIsOpaque ==
  (pc = "done" /\ DefaultResolution /\ Unclassified(pending.error)) =>
    /\ response = [status |-> 500, body |-> [error |-> "Internal Server Error"],
                   headers |-> {}]
    /\ \A e \in FilterErrors :
         Unclassified(e) => DefaultExceptionFilter(e) = response

C17_Witness ==
  /\ DefaultResolution
  /\ pending.error.message = "db password leaked"
  /\ pending.error.name = "TypeError"
  /\ pc = "done"
  /\ response.status = 500

\* C18: for an HttpException the default filter's response has the exception's
\* statusCode as status, its message as the error field, and a details field,
\* equal to the exception's details, exactly when details is defined.
C18_HttpExceptionEchoed ==
  (pc = "done" /\ DefaultResolution /\ pending.error.class = "HttpException") =>
    /\ response.status = pending.error.statusCode
    /\ response.body.error = pending.error.message
    /\ ("details" \in DOMAIN response.body) <=> (pending.error.details # "undefined")
    /\ pending.error.details # "undefined" =>
         response.body.details = pending.error.details
    /\ DOMAIN response.body \subseteq {"error", "details"}

C18_Witness ==
  /\ DefaultResolution
  /\ pending.error = HttpException(409, "", "null")
  /\ pc = "done"
  /\ response = [status |-> 409, body |-> [error |-> "", details |-> "null"], headers |-> {}]

\* C19: for every failure that reaches error resolution the raw error is
\* logged, whichever of onError, the custom exceptionFilter or the default
\* filter produces the response.
C19_AlwaysLogged ==
  (pc \in {"done", "rejected"} /\ ResolverEvents # <<>>) =>
    \E p \in 1..Len(calls) :
      calls[p] = Event("console.error", "-", 0, pending.error.message)

IsModifier(e) == e.op \in {"Authorize", "UseGuard", "Use", "Param"}

\* C20: every method-level modifier (roles, guard, middleware, parameter
\* binding) can be applied to a method that has no route metadata record yet:
\* it raises nothing and leaves a record for that method in the registry.
C20_ModifierBeforeVerb ==
  (pc = "decorating" /\ calls # <<>> /\ IsModifier(calls[Len(calls)])) =>
    /\ calls[Len(calls)].result = "applied"
    /\ pending.error = NoError
    /\ HasRouteMetadata(registry, "DecoratedController", calls[Len(calls)].level)

IsVerb(e) == e.op \in {"GET", "POST"}

\* C21: a verb annotation applied to a method that already has a record fills
\* in only the path, the verb and the handler name; the roles, guards,
\* middleware and parameter bindings recorded earlier stay as they were.
C21_VerbKeepsModifiers ==
  [][\A m \in DecoratedMethods :
       (/\ Len(calls') = Len(calls) + 1
        /\ IsVerb(calls'[Len(calls')])
        /\ calls'[Len(calls')].level = m
        /\ HasRouteMetadata(registry, "DecoratedController", m)) =>
         LET old == getRouteMetadata(registry, "DecoratedController", m)
             new == getRouteMetadata(registry', "DecoratedController", m)
         IN /\ new.path = <<Static(m)>>
            /\ new.method = calls'[Len(calls')].op
            /\ new.handler = m
            /\ new.roles = old.roles
            /\ new.guards = old.guards
            /\ new.middleware = old.middleware
            /\ new.paramDecorators = old.paramDecorators]_vars

IsClassGuard(e) == e.op = "ClassUseGuard"

IsClassMiddleware(e) == e.op = "ClassUse"

ControllerApplied == \E p \in 1..Len(calls) : calls[p].op = "Controller"

ClassAnnotated == \E p \in 1..Len(calls) : calls[p].level = ClassLevel

\* C22: in whatever order the class-level base-path, guard and middleware
\* annotations are applied, the class record has the declared base path once
\* Controller was applied and holds every declared guard and every declared
\* middleware, each list in application order.
C22_ClassLevelAnyOrder ==
  (pc = "decorating" /\ ClassAnnotated) =>
    /\ HasControllerMetadata(registry, "DecoratedController")
    /\ LET md == getControllerMetadata(registry, "DecoratedController")
           gs == SelectSeq(calls, IsClassGuard)
           ms == SelectSeq(calls, IsClassMiddleware)
       IN /\ md.basePath = IF ControllerApplied THEN DecoratedBasePath ELSE <<>>
          /\ md.guards = [i \in 1..Len(gs) |-> [level |-> "controller", idx |-> gs[i].idx]]
          /\ md.middleware =
               [i \in 1..Len(ms) |-> [level |-> "controller", idx |-> ms[i].idx]]

C22_Witness ==
  /\ Len(calls) = 3
  /\ calls[1].op = "ClassUseGuard"
  /\ calls[2].op = "Controller"
  /\ calls[3].op = "ClassUse"
  /\ getControllerMetadata(registry, "DecoratedController") =
       [basePath |-> DecoratedBasePath,
        guards |-> <<[level |-> "controller", idx |-> calls[1].idx]>>,
        middleware |-> <<[level |-> "controller", idx |-> calls[3].idx]>>]

VerbAppliedBefore(m, p) ==
  \E q \in 1..(p - 1) : IsVerb(calls[q]) /\ calls[q].level = m

\* C23: ensureRouteMetadata gives back the registry unchanged when the method
\* has a record and otherwise stores the placeholder (empty path, GET, the
\* method's name) and touches nothing else; a second call changes nothing; so
\* a guard or middleware annotation after a verb annotation keeps the declared
\* path. ensureControllerMetadata likewise never replaces a class record.
C23_EnsureIsGetOrCreate ==
  pc = "decorating" =>
    /\ \A m \in DecoratedMethods \cup {"fresh"} :
         LET e == ensureRouteMetadata(registry, "DecoratedController", m)
         IN /\ HasRouteMetadata(e, "DecoratedController", m)
            /\ HasRouteMetadata(registry, "DecoratedController", m) => e = registry
            /\ ~HasRouteMetadata(registry, "DecoratedController", m) =>
                 /\ getRouteMetadata(e, "DecoratedController", m) =
                      [path |-> <<>>, method |-> "GET", handler |-> m, roles |-> NoRoles,
                       guards |-> <<>>, middleware |-> <<>>, paramDecorators |-> <<>>]
                 /\ e.controllerMetadata = registry.controllerMetadata
                 /\ \A n \in DecoratedMethods \ {m} :
                      /\ HasRouteMetadata(e, "DecoratedController", n)
                           <=> HasRouteMetadata(registry, "DecoratedController", n)
                      /\ HasRouteMetadata(registry, "DecoratedController", n) =>
                           getRouteMetadata(e, "DecoratedController", n)
                             = getRouteMetadata(registry, "DecoratedController", n)
            /\ ensureRouteMetadata(e, "DecoratedController", m) = e
    /\ LET c == ensureControllerMetadata(registry, "DecoratedController")
       IN /\ HasControllerMetadata(c, "DecoratedController")
          /\ HasControllerMetadata(registry, "DecoratedController") => c = registry
          /\ ~HasControllerMetadata(registry, "DecoratedController") =>
               /\ getControllerMetadata(c, "DecoratedController") =
                    [basePath |-> <<>>, guards |-> <<>>, middleware |-> <<>>]
               /\ c.routeMetadata = registry.routeMetadata
          /\ ensureControllerMetadata(c, "DecoratedController") = c
    /\ \A p \in 1..Len(calls) :
         (calls[p].op \in {"UseGuard", "Use"} /\ VerbAppliedBefore(calls[p].level, p)) =>
           /\ HasRouteMetadata(registry, "DecoratedController", calls[p].level)
           /\ getRouteMetadata(registry, "DecoratedController", calls[p].level).path
                = <<Static(calls[p].level)>>

C23_Witness ==
  /\ Len(calls) = 2
  /\ calls[1] = Event("POST", "list", 0, "applied")
  /\ calls[2] = Event("UseGuard", "list", 0, "applied")
  /\ getRouteMetadata(registry, "DecoratedController", "list") =
       [path |-> <<Static("list")>>, method |-> "POST", handler |-> "list",
        roles |-> NoRoles, guards |-> <<[level |-> "route", idx |-> 1]>>,
        middleware |-> <<>>, paramDecorators |-> <<>>]

DeclaredOrder ==
  IF "ProductController" \in DOMAIN registry.routeOrder
  THEN registry.routeOrder["ProductController"] ELSE <<>>

LoadedHandlers == [i \in 1..Len(compiledRoutes) |-> compiledRoutes[i].metadata.handler]

StaticCount(pattern) == Len(SelectSeq(pattern, IsStaticSegment))

\* a has more segments, or as many and more static ones, or the same counts
\* and the static segment at the leftmost position where the kinds differ
MoreSpecific(a, b) ==
  \/ Len(a.pattern) > Len(b.pattern)
  \/ /\ Len(a.pattern) = Len(b.pattern)
     /\ StaticCount(a.pattern) > StaticCount(b.pattern)
  \/ /\ Len(a.pattern) = Len(b.pattern)
     /\ StaticCount(a.pattern) = StaticCount(b.pattern)
     /\ \E i \in 1..Len(a.pattern) :
          /\ ~a.pattern[i].dyn
          /\ b.pattern[i].dyn
          /\ \A j \in 1..(i - 1) : a.pattern[j].dyn = b.pattern[j].dyn

\* C24: in the list the loader returns, a route stands before every route it
\* is more specific than: more segments; or as many segments and more static
\* ones; or equal counts and static at the leftmost position where one route
\* is static and the other dynamic.
C24_SpecificityOrder ==
  pc = "loaded" =>
    \A i, j \in 1..Len(compiledRoutes) :
      MoreSpecific(compiledRoutes[i], compiledRoutes[j]) => i < j

C24_Witness ==
  /\ pc = "loaded"
  /\ DeclaredOrder = <<"list", "reviews", "special">>
  /\ LoadedHandlers = <<"special", "reviews", "list">>

\* the routes as the loops pushed them, before the sort
Pushed ==
  loadFrom(args[1], args[2], registry,
           [routes |-> <<>>, warnings |-> <<>>, container |-> EmptyContainer, error |-> NoError]).routes

PlaceOf(handler) ==
  CHOOSE i \in 1..Len(compiledRoutes) : compiledRoutes[i].metadata.handler = handler

\* C25: the sort is a function of the pushed list, sorting the sorted list
\* again changes nothing, the result holds exactly the pushed routes, and two
\* routes neither of which is more specific keep their pushed order.
C25_SortStable ==
  pc = "loaded" =>
    /\ compiledRoutes = SortRoutes(Pushed)
    /\ SortRoutes(compiledRoutes) = compiledRoutes
    /\ Len(compiledRoutes) = Len(Pushed)
    /\ \A i \in 1..Len(Pushed) : \E j \in 1..Len(compiledRoutes) : compiledRoutes[j] = Pushed[i]
    /\ \A i, j \in 1..Len(Pushed) :
         (/\ i < j
          /\ ~MoreSpecific(Pushed[i], Pushed[j])
          /\ ~MoreSpecific(Pushed[j], Pushed[i])) =>
           PlaceOf(Pushed[i].metadata.handler) < PlaceOf(Pushed[j].metadata.handler)

C25_Witness ==
  /\ pc = "loaded"
  /\ DeclaredOrder = <<"getById", "popular", "featured">>
  /\ LoadedHandlers = <<"popular", "featured", "getById">>

IsLoaded(handler) ==
  \E i \in 1..Len(compiledRoutes) : compiledRoutes[i].metadata.handler = handler

UnderPrefix(pathname) == Names(Split(args[2])) \o pathname

\* C26: with /products/featured and /products/:id both declared for GET, in
\* either order, a GET of /products/featured selects the static route and
\* extracts no parameter.
C26_StaticBeforeDynamic ==
  (/\ pc = "matched"
   /\ IsLoaded("featured")
   /\ IsLoaded("getById")
   /\ request.method = "GET"
   /\ request.path = UnderPrefix(<<"products", "featured">>)) =>
    /\ route # 0
    /\ compiledRoutes[route].metadata.handler = "featured"
    /\ context.params = NoParams

C26_Witness ==
  /\ pc = "matched"
  /\ DeclaredOrder = <<"getById", "featured">>
  /\ request.method = "GET"
  /\ request.path = UnderPrefix(<<"products", "featured">>)
  /\ compiledRoutes[route].metadata.handler = "featured"
  /\ context.params = NoParams

Candidates ==
  { i \in 1..Len(compiledRoutes) :
      /\ compiledRoutes[i].method = request.method
      /\ PatternMatches(compiledRoutes[i].pattern, request.path) }

\* C27: matchRoute returns the first route of the list whose verb equals the
\* request's and whose pattern matches the pathname; a route with another
\* verb is never returned; when there is none it returns nothing and raises
\* nothing.
C27_FirstMatchWins ==
  pc = "matched" =>
    /\ pending.error = NoError
    /\ IF Candidates = {}
       THEN route = 0 /\ context.params = NoParams
       ELSE /\ route \in Candidates
            /\ \A i \in Candidates : route <= i
            /\ compiledRoutes[route].method = request.method

C27_Witness ==
  /\ pc = "matched"
  /\ LoadedHandlers = <<"list", "create">>
  /\ request.method = "POST"
  /\ request.path = UnderPrefix(<<"products">>)
  /\ route = 2

NamedSegments(pattern) == SelectSeq(pattern, LAMBDA seg : seg.dyn)

\* C28: a compiled route has one parameter name per capture group of its
\* pattern, in left-to-right order; on a match every parameter name is a key
\* of the extracted parameters and its value is a string: the captured
\* segment, or the empty string when the group captured nothing.
C28_ParamsComplete ==
  /\ pc = "loaded" =>
       \A i \in 1..Len(compiledRoutes) :
         LET r == compiledRoutes[i]
         IN /\ Len(r.keys) = Len(NamedSegments(r.pattern))
            /\ \A k \in 1..Len(r.keys) :
                 /\ r.keys[k].name = NamedSegments(r.pattern)[k].name
                 /\ r.keys[k].index = k - 1
  /\ (pc = "matched" /\ route # 0) =>
       LET r == compiledRoutes[route]
       IN /\ DOMAIN context.params = {r.keys[k].name : k \in 1..Len(r.keys)}
          /\ \A i \in 1..Len(r.pattern) :
               r.pattern[i].dyn =>
                 context.params[r.pattern[i].name] =
                   IF i <= Len(request.path) THEN request.path[i] ELSE ""

C28_Witness ==
  /\ pc = "matched"
  /\ route # 0
  /\ compiledRoutes[route].metadata.handler = "find"
  /\ request.path = UnderPrefix(<<"products">>)
  /\ context.params = [id |-> ""]

WellFormedPath(text) ==
  /\ text # <<>>
  /\ IsSlash(text[1])
  /\ \A i \in 1..(Len(text) - 1) : ~(IsSlash(text[i]) /\ IsSlash(text[i + 1]))
  /\ Len(text) > 1 => ~IsSlash(text[Len(text)])

\* C29: normalize(normalize(a, b), c) equals normalize(a, b, c) for all path
\* arguments, empty ones and ones with leading, trailing or repeated slashes
\* included; the result starts with a single slash, has no repeated slash and
\* no trailing slash unless it is the bare root.
C29_NormalizeNests ==
  pc = "normalizing" =>
    /\ \A p \in 1..Len(calls) : WellFormedPath(calls[p].result)
    /\ Len(calls) = 2 => calls[1].result = calls[2].result

C29_Witness ==
  /\ pc = "normalizing"
  /\ args = << <<Static("a"), Slash, Slash>>, <<>>, <<Slash, Static("a"), Slash>> >>
  /\ Len(calls) = 2
  /\ calls[1].op = "nested"
  /\ calls[1].result = <<Slash, Static("a"), Slash, Static("a")>>
  /\ calls[2].result = calls[1].result

Undecorated ==
  { c \in Range(args[1]) : ~HasControllerMetadata(registry, c) }

AllHandlersCallable ==
  \A i \in 1..Len(DeclaredOrder) : DeclaredOrder[i] \in Methods("ProductController")

Warned(class) ==
  \E p \in 1..Len(calls) : calls[p].op = "console.warn" /\ calls[p].level = class

SkippedUndecorated ==
  /\ pc # "load-throw"
  /\ pending.error = NoError
  /\ \A c \in Undecorated : Warned(c)
  /\ ~IsLoaded("ping")
  /\ LET own == SelectSeq(LoadedHandlers, LAMBDA h : h \in Range(DeclaredOrder))
     IN Len(own) = Len(DeclaredOrder) /\ Len(own) = Len(compiledRoutes)

\* C30 as stated: load skips a controller type that has no ControllerMetadata:
\* it warns, raises nothing, adds no route for it and still returns the
\* compiled routes of every other controller in the list.
C30_Original ==
  (pc \in {"loaded", "load-throw"} /\ Undecorated # {} /\ AllHandlersCallable) =>
    SkippedUndecorated

\* C30: load skips a controller type that has no ControllerMetadata once the
\* container has given its instance: it warns, raises nothing, adds no route
\* for it and still returns the compiled routes of every other controller in
\* the list; a type the container cannot construct makes load raise before
\* the metadata is looked at.
C30_SkipsAfterInstance ==
  (pc \in {"loaded", "load-throw"} /\ Undecorated # {} /\ AllHandlersCallable) =>
    IF \A c \in Undecorated : Constructible(c)
    THEN SkippedUndecorated
    ELSE /\ pc = "load-throw"
         /\ pending.error = CannotResolveDependency
         /\ compiledRoutes = <<>>

C30_Witness ==
  /\ pc = "loaded"
  /\ args[1] = <<"NotDecorated", "ProductController">>
  /\ Warned("NotDecorated")
  /\ DeclaredOrder = <<"list", "getById">>
  /\ LoadedHandlers = <<"getById", "list">>


\* the controllers of the list that carry ControllerMetadata
Decorated ==
  { c \in Range(args[1]) : HasControllerMetadata(registry, c) }

\* some route record of a loaded controller names a member that is not callable
SomeHandlerNotCallable ==
  \E c \in Decorated :
    \E i \in 1..Len(getAllRouteMetadata(registry, c)) :
      getAllRouteMetadata(registry, c)[i].handler \notin Methods(c)

LoadRaised == pc = "load-throw" /\ pending.error # NoError /\ compiledRoutes = <<>>

LoadReturned == pc \in {"loaded", "matched"} /\ pending.error = NoError

IsGet(p, token) == calls[p].op = "get" /\ calls[p].level = token

\* no clear and no registration of the class between two places of the log
Undisturbed(p, q, token) ==
  \A k \in (p + 1)..(q - 1) :
    /\ calls[k].op # "clear"
    /\ ~(calls[k].op \in {"register", "registerFactory"} /\ calls[k].level = token)

\* two get calls for one class with nothing in between that resets it
SameRun(p, q, token) ==
  /\ p < q
  /\ IsGet(p, token)
  /\ IsGet(q, token)
  /\ Undisturbed(p, q, token)

\* C32 as stated: for any sequence of get calls for one class with no
\* intervening clear or register, every call returns the same instance and
\* the factory or constructor of the class runs at most once, whichever
\* requests the calls come from.
C32_Original ==
  (pc = "container") =>
    \A token \in ContainerTokens : \A p, q \in 1..Len(calls) :
      SameRun(p, q, token) =>
        /\ calls[p].result = "returned"
        /\ calls[q].result = "returned"
        /\ calls[p].instance = calls[q].instance
        /\ calls[q].ran = "none"

\* C32: for any sequence of get calls for one class with no intervening clear
\* or register, every call that returns returns the same instance, and after
\* a call has returned neither the factory nor the constructor runs again and
\* no later call throws, whichever requests the calls come from; a factory
\* or constructor that throws leaves nothing cached, so the next get runs it
\* again.
C32_SingletonOnceBuilt ==
  (pc = "container") =>
    \A token \in ContainerTokens : \A p, q \in 1..Len(calls) :
      SameRun(p, q, token) =>
        /\ (calls[p].result = "returned") =>
             /\ calls[q].result = "returned"
             /\ calls[q].instance = calls[p].instance
             /\ calls[q].ran = "none"
        /\ (calls[p].result = "threw" /\ q = p + 1) => calls[q].ran # "none"

C32_Witness ==
  /\ pc = "container"
  /\ Len(calls) = 4
  /\ calls[1] = ContainerEvent("get", "ProductController", 1, "returned",
                               Instance("ProductController", 1), "new")
  /\ calls[2] = ContainerEvent("get", "BrokenController", 2, "threw", NoInstance, "new")
  /\ calls[3] = ContainerEvent("get", "ProductController", 2, "returned",
                               Instance("ProductController", 1), "none")
  /\ calls[4] = ContainerEvent("get", "BrokenController", 1, "threw", NoInstance, "new")


\* what one invocation may see and answer, told from its own request, the
\* routes and the results its own collaborators gave it
OwnState(v) ==
  LET match == matchRoute(v.request.path, v.request.method, compiledRoutes)
      r == compiledRoutes[v.route]
      chain == MiddlewareChain(r)
      ran == { p \in 1..Len(v.calls) :
                 v.calls[p].op = "middleware" /\ v.calls[p].result = "run" }
  IN /\ v.route = match.route
     /\ v.context.params = match.params
     /\ (v.context.auth # NoAuth) <=>
          (\E p \in 1..Len(v.calls) : v.calls[p] = Event("authProvider", "-", 0, "context"))
     /\ v.context.parsedBody \in {"undefined", ParseBody(v.request.body).value}
     /\ v.middlewareIndex = Cardinality(ran)
     /\ v.route # 0 =>
          /\ \A p \in 1..Len(v.calls) :
               /\ v.calls[p].op = "guard" =>
                    [level |-> v.calls[p].level, idx |-> v.calls[p].idx]
                      \in Range(r.controllerMetadata.guards \o r.metadata.guards)
               /\ v.calls[p].op = "middleware" =>
                    [level |-> v.calls[p].level, idx |-> v.calls[p].idx] \in Range(chain)
          /\ \A p \in ran : \E k \in 1..Len(chain) :
               /\ k <= Cardinality({q \in ran : q <= p})
               /\ chain[k] = [level |-> v.calls[p].level, idx |-> v.calls[p].idx]
          /\ v.args # <<>> => v.args = Bind(r, v.context, v.request).args
     /\ v.pc = "done" =>
          /\ v.route = 0 =>
               v.response = Json([error |-> "Route not found", path |-> v.request.path,
                                  method |-> v.request.method], 404)
          /\ (v.route # 0 /\ Len(v.calls) >= 2 /\ v.calls[Len(v.calls) - 1].op = "defaultFilter") =>
               v.response = DefaultExceptionFilter(v.pending.error)
          /\ (v.route # 0 /\ "handler" \in DOMAIN v.response.body) =>
               v.response.body = HandlerValue(r)
          /\ (v.route # 0 /\ "from" \in DOMAIN v.response.body) =>
               [level |-> v.response.body.level, idx |-> v.response.body.idx] \in Range(chain)

\* C33: when two requests are dispatched concurrently and interleave at any
\* suspension point, each one's route, params, AuthContext, parsed body,
\* position in its middleware chain, handler arguments and response are those
\* of its own request and of the results its own collaborators returned, for
\* the running invocation and for the waiting one.
C33_OwnStateOnly ==
  /\ (pc # "idle") => OwnState(Active)
  /\ (suspended.pc # "idle") => OwnState(suspended)

C33_Witness ==
  /\ pc = "done"
  /\ request.path = <<"items", "7">>
  /\ context.params = [id |-> "7"]
  /\ context.auth.userId = "admin-1"
  /\ middlewareIndex = 1
  /\ response.status = 200
  /\ suspended.pc = "mwRun"
  /\ suspended.request.method = "PUT"
  /\ suspended.context.auth.userId = "user-1"
  /\ suspended.context.parsedBody = "undefined"
  /\ suspended.middlewareIndex = 1
  /\ Len(suspended.calls) < Len(calls)


\* a guard of this dispatch has returned false
SomeGuardReturnedFalse ==
  \E p \in 1..Len(calls) : calls[p].op = "guard" /\ calls[p].result = "false"

AccessDeniedByGuard == ForbiddenException("Access denied by guard", "undefined")

\* C34: the guards run before role authorization: on a matched route with
\* roles present and no AuthContext, a dispatch in which some guard returned
\* false ends with the 403 'Access denied by guard' failure, answered 403 with
\* that message by the default filter and never 401, and the 401 of the role
\* step is raised only after every guard has returned true.
C34_GuardsBeforeRoles ==
  (Matched /\ Route.metadata.roles.defined /\ ~context.auth.present /\ pc # "auth") =>
    /\ SomeGuardReturnedFalse =>
         /\ EndedBy(AccessDeniedByGuard)
         /\ (pc = "done" /\ DefaultResolution) =>
              response = Json([error |-> "Access denied by guard"], 403)
         /\ response.status # 401
    /\ (pending.error = Unauthenticated) => AllGuardsTrue

C34_Witness ==
  /\ Matched
  /\ Route.metadata.roles = [defined |-> TRUE, list |-> <<"editor", "admin">>]
  /\ ~config.authProvider
  /\ pc = "done"
  /\ Len(calls) >= 2
  /\ calls[1] = Event("guard", "controller", 1, "true")
  /\ calls[2] = Event("guard", "route", 1, "false")
  /\ response = Json([error |-> "Access denied by guard"], 403)


HandlerEntries == SelectSeq(calls, LAMBDA e : e.op = "executeHandler")

HandlerInvocations == SelectSeq(calls, LAMBDA e : e.op = "handler")

\* C35: within one dispatch the handler is invoked at most once and each
\* middleware at most once, however many times a middleware calls continue.
C35_AtMostOnce ==
  Matched =>
    /\ Len(HandlerEntries) <= 1
    /\ Len(HandlerInvocations) <= 1
    /\ \A k \in 1..Len(Chain) :
         Len(SelectSeq(RunEvents, LAMBDA e : e.level = Chain[k].level /\ e.idx = Chain[k].idx)) <= 1


InFlight == pc \notin {"idle", "done", "rejected"}

\* C36: with neither onError nor exceptionFilter configured, every dispatch
\* whose collaborators each return or throw ends with exactly one response:
\* the promise of handleRequest is never rejected, a dispatch in flight is
\* eventually answered, and the answer, once given, is not replaced.
C36_AlwaysAnswered ==
  /\ [](DefaultResolution => pc # "rejected")
  /\ []((DefaultResolution /\ pc = "done") => response # NoResponse)
  /\ [][(DefaultResolution /\ response # NoResponse) =>
          (response' = response \/ pc' = "idle")]_vars
  /\ (DefaultResolution /\ InFlight) ~> (pc = "done")

C36_Witness ==
  /\ DefaultResolution
  /\ pc = "done"
  /\ Len(calls) >= 4
  /\ calls[1] = Event("middleware", "controller", 1, "run")
  /\ \E p \in 1..Len(calls) : calls[p] = Event("handler", "-", 0, "throw")
  /\ calls[Len(calls) - 1].op = "defaultFilter"
  /\ response = Json([error |-> "Internal Server Error"], 500)


\* the binding list as the decorators recorded it, last parameter first
StoredBindings(handler) ==
  getRouteMetadata(registry, "UploadController", handler).paramDecorators

\* C37: dispatching any sequence of requests leaves the compiled route list and
\* the registry as they were: no step of a dispatch writes either, and
\* ordering the parameter bindings by index for a call leaves the stored
\* binding list of the route in its recorded order.
C37_DispatchLeavesRoutes ==
  [][/\ compiledRoutes' = compiledRoutes
     /\ registry' = registry
     /\ \A i \in 1..Len(compiledRoutes) :
          /\ compiledRoutes'[i].metadata.paramDecorators =
               compiledRoutes[i].metadata.paramDecorators
          /\ getRouteMetadata(registry', ControllerOf(compiledRoutes[i]),
                              compiledRoutes[i].handler) = compiledRoutes[i].metadata]_vars

C37_Witness ==
  /\ Matched
  /\ Route.handler = "replace"
  /\ HandlerCalled
  /\ Len(HandlerEntries) = 2
  /\ args[1] = args[3]
  /\ Route.metadata.paramDecorators =
       <<ParamDecorator("body", "", 2, FALSE), ParamDecorator("body", "", 0, FALSE)>>
  /\ StoredBindings("replace") = Route.metadata.paramDecorators


IsFilterCall(e) == e.op \in {"exceptionFilter", "defaultFilter"}

\* C38: the context handed to the exception filter, custom or default, has
\* empty params and no auth, also when the failure was raised after the route
\* was matched and an AuthContext was attached to the context of the dispatch.
C38_FilterGetsBaseContext ==
  \A p \in 1..Len(calls) :
    IsFilterCall(calls[p]) =>
      /\ calls[p].context.params = NoParams
      /\ calls[p].context.auth = NoAuth
      /\ calls[p].context.parsedBody = "undefined"

C38_Witness ==
  /\ Matched
  /\ pc = "done"
  /\ context.params = [id |-> "42"]
  /\ context.auth.present
  /\ HandlerCalled
  /\ \E p \in 1..Len(calls) :
       /\ calls[p].op = "exceptionFilter"
       /\ calls[p].context.params = NoParams
       /\ ~calls[p].context.auth.present


\* the routes of the request's verb
SameVerb == { i \in 1..Len(compiledRoutes) : compiledRoutes[i].method = request.method }

\* full paths that differ at most in the names of their parameters
IdenticalUpToNames(a, b) ==
  /\ Len(a.pattern) = Len(b.pattern)
  /\ \A i \in 1..Len(a.pattern) :
       \/ a.pattern[i] = b.pattern[i]
       \/ a.pattern[i].dyn /\ b.pattern[i].dyn /\ a.pattern[i].opt = b.pattern[i].opt

\* full paths with the same static segments at the same places and a
\* parameter, required or optional, at every other place
SameShape(a, b) ==
  /\ Len(a.pattern) = Len(b.pattern)
  /\ \A i \in 1..Len(a.pattern) :
       \/ a.pattern[i] = b.pattern[i]
       \/ a.pattern[i].dyn /\ b.pattern[i].dyn

\* the selected route is ranked strictly before every other route of the verb
\* that matches the path, so it is the same whatever order the list was
\* declared in
SelectionIsOrderFree ==
  /\ \A i, j \in Candidates :
       i # j => compareRoutes(compiledRoutes[i], compiledRoutes[j]) # 0
  /\ Candidates # {} =>
       /\ route \in Candidates
       /\ \A j \in Candidates \ {route} :
            compareRoutes(compiledRoutes[route], compiledRoutes[j]) < 0

GuardOnlyMethods == { d.handler : d \in { x \in RoutePool : ~x.verb } }

\* C40: only methods that carry a verb annotation become routes: a method
\* annotated only with guards or middleware, whose record is the placeholder
\* with empty path and default verb, gives no compiled route and no request
\* is dispatched to it.
C40_OnlyVerbMethodsRouted ==
  /\ pc \in {"loaded", "matched"} =>
       \A i \in 1..Len(compiledRoutes) :
         compiledRoutes[i].metadata.handler \notin GuardOnlyMethods
  /\ (pc = "matched" /\ route # 0) =>
       compiledRoutes[route].metadata.handler \notin GuardOnlyMethods

====
